---- MODULE Spec2Model ----
(***************************************************************************)
(* A model of the pyScss expression engine: the Namespace scope chains of  *)
(* scss/rule.py and the AST evaluator of scss/expression.py.               *)
(*                                                                         *)
(* Python objects live in a heap: `dicts` holds every dict object ever     *)
(* created (a dict is a function from its keys to its values), and         *)
(* `namespaces` holds every Namespace, each with the `maps` list of its    *)
(* three VariableScope objects.  A maps list is a sequence of links; a     *)
(* link refers to a dict of the heap or is the generator object that       *)
(* derive_from passes to VariableScope when given several parents.         *)
(* Python's 0-based maps[0] is maps[1] here.                               *)
(***************************************************************************)
EXTENDS Integers, Sequences, FiniteSets, TLC

VARIABLES
    dicts,       \* the heap of dict objects
    namespaces,  \* the Namespace objects, in creation order
    writes,      \* how many set_* calls, or calls of builtins, have run
                 \* (bounded by MaxWrites, MaxBuiltinCalls)
    last,        \* the call that ran last, with what it returned or raised
    expression,  \* the expression the calculator is handed (an AST, or the
                 \* source text of one), None before any
    ast_cache,   \* the module's ast_cache: source text -> the AST object
    DEBUG,       \* config.DEBUG
    evaluated    \* what the latest evaluate_expression call gave, None
                 \* before any

\* What the calls on namespaces leave alone.
calculator == <<expression, ast_cache, DEBUG, evaluated>>

vars ==
    <<dicts, namespaces, writes, last, expression, ast_cache, DEBUG, evaluated>>

----------------------------------------------------------------------------
(* Bounds of the model *)

MaxNamespaces == 3
MaxWrites == 3
MaxCallableNamespaces == 2
MaxCallableWrites == 2
MaxEvalNamespaces == 1
MaxBuiltinCalls == 1

----------------------------------------------------------------------------
(* Python values *)

\* Python's None, and a value that is present where None is possible.
None == <<>>
Some(x) == <<x>>

\* What a call gives back: a value returned, or an exception raised with
\* its argument (KeyError(key)).
Return(v) == [exc |-> "", value |-> v]
Raise(e, k) == [exc |-> e, key |-> k]

\* str.replace(old, new) for one-character old and new.
RECURSIVE replace(_, _, _)
replace(s, old, new) ==
    IF s = ""
    THEN ""
    ELSE (IF Head(s) = old THEN new ELSE Head(s)) \o replace(Tail(s), old, new)

\* str.lstrip(chars) for a single character.
RECURSIVE lstrip(_, _)
lstrip(s, ch) ==
    IF s # "" /\ Head(s) = ch THEN lstrip(Tail(s), ch) ELSE s

----------------------------------------------------------------------------
(* rule.py: normalize_var and VariableScope *)

normalize_var_keep(name) == name

normalize_var(name) == replace(name, "_", "-")

DictLink(d) == [kind |-> "dict", ref |-> d]
\* The generator `(other._variables for other in others)`, held as one link.
GeneratorLink == [kind |-> "generator", ref |-> 0]

\* `key in map` for one link of a maps list.  A dict answers by its keys.
\* A generator is run to its end comparing key with each VariableScope it
\* yields; a key (a str or a tuple) equals none of them.
KeyIn(heap, link, key) ==
    /\ link.kind = "dict"
    /\ key \in DOMAIN heap[link.ref]

\* The loop `for map in self.maps: if key in map:` from link i on: the
\* position of the first link holding key, 0 when the loop runs out.
RECURSIVE ScanMaps(_, _, _, _)
ScanMaps(heap, maps, key, i) ==
    IF i > Len(maps) THEN 0
    ELSE IF KeyIn(heap, maps[i], key) THEN i
    ELSE ScanMaps(heap, maps, key, i + 1)

FirstLink(heap, maps, key) == ScanMaps(heap, maps, key, 1)

\* VariableScope.__getitem__
VariableScope_getitem(heap, maps, key) ==
    LET i == FirstLink(heap, maps, key)
    IN  IF i # 0
        THEN Return(heap[maps[i].ref][key])
        ELSE Raise("KeyError", key)

\* dict.__setitem__ on the dict object d of the heap.
DictSet(heap, d, key, value) ==
    [heap EXCEPT ![d] = (key :> value) @@ @]

VariableScope_setitem_shadow(heap, maps, key, value) ==
    DictSet(heap, maps[1].ref, key, value)

VariableScope_setitem_outermost(heap, maps, key, value) ==
    LET i == FirstLink(heap, maps, key)
    IN  IF i # 0
        THEN DictSet(heap, maps[i].ref, key, value)
        ELSE DictSet(heap, maps[Len(maps)].ref, key, value)

\* VariableScope.__setitem__: the heap after the assignment.
VariableScope_setitem(heap, maps, key, value) ==
    LET i == FirstLink(heap, maps, key)
    IN  IF i # 0
        THEN DictSet(heap, maps[i].ref, key, value)
        ELSE DictSet(heap, maps[1].ref, key, value)

\* VariableScope.__init__(*maps): a fresh dict in front of the given links.
\* The fresh dict is the next object of the heap.
VariableScope_init(heap, maps) ==
    [heap |-> Append(heap, <<>>),
     maps |-> <<DictLink(Len(heap) + 1)>> \o maps]

\* VariableScope.new_child
VariableScope_new_child(heap, maps) == VariableScope_init(heap, maps)

----------------------------------------------------------------------------
(* functions/core.py: the registrations of the core library *)

\* CORE_LIBRARY._functions after the @register lines of rgba, rgb, rgba2 and
\* rgb1: name and arity to the Python function registered.
CORE_LIBRARY ==
    (<<"rgba", Some(4)>> :> "rgba") @@ (<<"rgb", Some(3)>> :> "rgb") @@
    (<<"rgba", Some(1)>> :> "rgba2") @@ (<<"rgba", Some(2)>> :> "rgba2") @@
    (<<"rgb", Some(1)>> :> "rgb1")

\* The heap position of the library's dict, made when core.py is imported.
CoreLibraryDict == DictLink(1)

----------------------------------------------------------------------------
(* rule.py: Namespace *)

\* Namespace.__init__(functions=library), library None or the core library.
\* `parents` is not a field of the object: it records the arguments of the
\* derive_from call that made the namespace (empty for a constructor call).
Namespace_init(heap, library) ==
    LET v == VariableScope_init(heap, <<>>)
        f == VariableScope_init(v.heap,
                 IF library = None THEN <<>> ELSE <<CoreLibraryDict>>)
        m == VariableScope_init(f.heap, <<>>)
    IN  [heap |-> m.heap,
         ns   |-> [variables |-> v.maps, functions |-> f.maps,
                   mixins |-> m.maps, parents |-> <<>>,
                   inherited |-> {}]]

\* The variable keys a lookup through maps finds.
VisibleKeys(heap, maps) ==
    UNION {DOMAIN heap[maps[i].ref] :
               i \in {j \in 1..Len(maps) : maps[j].kind = "dict"}}

\* Namespace.derive_from(*others).  The three scopes `cls()` builds first
\* are dropped again unread and are left out of the heap.  `inherited`
\* records the variable keys the single parent bound at this moment.
Namespace_derive_from(heap, nss, others) ==
    IF Len(others) = 1
    THEN LET o == nss[others[1]]
             v == VariableScope_new_child(heap, o.variables)
             f == VariableScope_new_child(v.heap, o.functions)
             m == VariableScope_new_child(f.heap, o.mixins)
         IN  [heap |-> m.heap,
              ns   |-> [variables |-> v.maps, functions |-> f.maps,
                        mixins |-> m.maps, parents |-> others,
                        inherited |-> VisibleKeys(heap, o.variables)]]
    ELSE LET v == VariableScope_init(heap, <<GeneratorLink>>)
             f == VariableScope_init(v.heap, <<GeneratorLink>>)
             m == VariableScope_init(f.heap, <<GeneratorLink>>)
         IN  [heap |-> m.heap,
              ns   |-> [variables |-> v.maps, functions |-> f.maps,
                        mixins |-> m.maps, parents |-> others,
                        inherited |-> {}]]

\* Namespace.variable
Namespace_variable(heap, ns, name) ==
    VariableScope_getitem(heap, ns.variables, normalize_var(name))

\* Namespace.set_variable: the heap afterwards.  The assert on line 87
\* holds of every value written here: none is a str.
Namespace_set_variable(heap, ns, name, value) ==
    VariableScope_setitem(heap, ns.variables, normalize_var(name), value)

\* _get_callable, were the general case tried before the particular arity.
Namespace_get_callable_wildcard(heap, chainmap, name, arity) ==
    LET key == normalize_var(name)
        general == VariableScope_getitem(heap, chainmap, <<key, None>>)
    IN  IF general.exc # "KeyError"
        THEN general
        ELSE VariableScope_getitem(heap, chainmap, <<key, arity>>)

Namespace_get_callable_exact(heap, chainmap, name, arity) ==
    VariableScope_getitem(heap, chainmap, <<normalize_var(name), arity>>)

\* Namespace._get_callable
Namespace_get_callable(heap, chainmap, name, arity) ==
    LET key == normalize_var(name)
        exact == VariableScope_getitem(heap, chainmap, <<key, arity>>)
    IN  IF arity # None /\ exact.exc # "KeyError"
        THEN exact
        ELSE VariableScope_getitem(heap, chainmap, <<key, None>>)

\* Namespace._set_callable: the heap afterwards.
Namespace_set_callable(heap, chainmap, name, arity, cb) ==
    VariableScope_setitem(heap, chainmap, <<normalize_var(name), arity>>, cb)

\* Namespace.mixin, set_mixin, function, set_function
Namespace_mixin(heap, ns, name, arity) ==
    Namespace_get_callable(heap, ns.mixins, name, arity)

Namespace_set_mixin(heap, ns, name, arity, cb) ==
    Namespace_set_callable(heap, ns.mixins, name, arity, cb)

Namespace_function(heap, ns, name, arity) ==
    Namespace_get_callable(heap, ns.functions, name, arity)

Namespace_set_function(heap, ns, name, arity, cb) ==
    Namespace_set_callable(heap, ns.functions, name, arity, cb)

----------------------------------------------------------------------------
(* Sass values (scss/types.py) and what the evaluator asks of them *)

\* NumberValue: the magnitude num/den in lowest terms with den > 0, and the
\* unit ("" when unitless).
NumberValue(num, den, unit) ==
    [t |-> "Number", num |-> num, den |-> den, unit |-> unit]

\* String(value, quotes=...): quotes is "" for quotes=None.
String(value, quotes) == [t |-> "String", value |-> value, quotes |-> quotes]

BooleanValue(b) == [t |-> "Boolean", bool |-> b]

\* ListValue(items, separator=...)
ListValue(items, separator) ==
    [t |-> "List", items |-> items, separator |-> separator]

Abs(n) == IF n < 0 THEN -n ELSE n

RECURSIVE Gcd(_, _)
Gcd(a, b) == IF b = 0 THEN a ELSE Gcd(b, a % b)

\* The number num/den with the unit, brought to lowest terms.
Reduced(num, den, unit) ==
    LET g == Gcd(Abs(num), Abs(den))
        sign == IF den < 0 THEN -1 ELSE 1
    IN  NumberValue(sign * (num \div g), sign * (den \div g), unit)

\* The operator a BinaryOp node holds, applied to two values.  Any two
\* values compare equal or not.  Numbers add, subtract and compare when
\* their units agree or one has none, multiply when at most one has a unit,
\* and divide when the divisor has no unit or the units agree (the quotient
\* then has none); anything else is a TypeError.
ApplyBinary(op, l, r) ==
    IF op \in {"eq", "ne"}
    THEN Return(BooleanValue((l.t = r.t /\ l = r) <=> (op = "eq")))
    ELSE IF l.t # "Number" \/ r.t # "Number"
    THEN Raise("TypeError", op)
    ELSE CASE op \in {"add", "sub"} ->
                  IF l.unit = r.unit \/ l.unit = "" \/ r.unit = ""
                  THEN LET rn == IF op = "add" THEN r.num ELSE -r.num
                       IN  Return(Reduced(l.num * r.den + rn * l.den,
                                          l.den * r.den,
                                          IF l.unit = "" THEN r.unit
                                                         ELSE l.unit))
                  ELSE Raise("TypeError", op)
           [] op = "mul" ->
                  IF l.unit = "" \/ r.unit = ""
                  THEN Return(Reduced(l.num * r.num, l.den * r.den,
                                      IF l.unit = "" THEN r.unit
                                                     ELSE l.unit))
                  ELSE Raise("TypeError", op)
           [] op = "truediv" ->
                  IF r.num = 0
                  THEN Raise("ZeroDivisionError", op)
                  ELSE IF r.unit = "" \/ r.unit = l.unit
                  THEN Return(Reduced(l.num * r.den, l.den * r.num,
                                      IF r.unit = "" THEN l.unit ELSE ""))
                  ELSE Raise("TypeError", op)
           [] op \in {"lt", "gt", "le", "ge"} ->
                  IF l.unit = r.unit \/ l.unit = "" \/ r.unit = ""
                  THEN LET a == l.num * r.den
                           b == r.num * l.den
                       IN  Return(BooleanValue(
                               CASE op = "lt" -> a < b
                                 [] op = "gt" -> a > b
                                 [] op = "le" -> a <= b
                                 [] op = "ge" -> a >= b))
                  ELSE Raise("TypeError", op)

\* The operator a UnaryOp node holds (operator.neg, operator.pos).
ApplyUnary(op, v) ==
    IF v.t # "Number"
    THEN Raise("TypeError", op)
    ELSE Return(NumberValue(IF op = "neg" THEN -v.num ELSE v.num,
                            v.den, v.unit))

\* bool(value): Null and the Boolean false are false, every other value is
\* true.
Truth(v) ==
    CASE v.t = "Null" -> FALSE
      [] v.t = "Boolean" -> v.bool
      [] OTHER -> TRUE

Digit(d) ==
    CASE d = 0 -> "0" [] d = 1 -> "1" [] d = 2 -> "2" [] d = 3 -> "3"
      [] d = 4 -> "4" [] d = 5 -> "5" [] d = 6 -> "6" [] d = 7 -> "7"
      [] d = 8 -> "8" [] d = 9 -> "9"

\* The decimal digits of a natural number.
RECURSIVE Digits(_)
Digits(n) ==
    IF n < 10 THEN Digit(n) ELSE Digits(n \div 10) \o Digit(n % 10)

\* The digits after the decimal point of rem/den (rem < den), at most
\* `places` of them.
RECURSIVE Fraction(_, _, _)
Fraction(rem, den, places) ==
    IF rem = 0 \/ places = 0
    THEN ""
    ELSE Digit((rem * 10) \div den)
             \o Fraction((rem * 10) % den, den, places - 1)

\* NumberValue.render(): the magnitude in decimal, then the unit.
RenderNumber(v) ==
    LET whole == Abs(v.num) \div v.den
        frac == Fraction(Abs(v.num) % v.den, v.den, 5)
    IN  (IF v.num < 0 THEN "-" ELSE "") \o Digits(whole)
            \o (IF frac = "" THEN "" ELSE "." \o frac) \o v.unit

\* sep.join(strs)
RECURSIVE Join(_, _)
Join(strs, sep) ==
    IF Len(strs) = 0 THEN ""
    ELSE IF Len(strs) = 1 THEN strs[1]
    ELSE strs[1] \o sep \o Join(Tail(strs), sep)

\* value.render(): the CSS text of a value.
RECURSIVE Render(_)
Render(v) ==
    CASE v.t = "Number" -> RenderNumber(v)
      [] v.t = "String" -> v.quotes \o v.value \o v.quotes
      [] v.t = "Boolean" -> IF v.bool THEN "true" ELSE "false"
      [] v.t = "Null" -> "null"
      [] v.t = "Color" -> v.value
      [] v.t = "List" ->
             Join([i \in 1..Len(v.items) |-> Render(v.items[i])],
                  IF v.separator = "," THEN ", " ELSE " ")

----------------------------------------------------------------------------
(* expression.py: the AST *)

Literal(value) == [node |-> "Literal", value |-> value]
Variable(name) == [node |-> "Variable", name |-> name]
Parentheses(contents) == [node |-> "Parentheses", contents |-> contents]
UnaryOp(op, operand) == [node |-> "UnaryOp", op |-> op, operand |-> operand]
BinaryOp(op, left, right) ==
    [node |-> "BinaryOp", op |-> op, left |-> left, right |-> right]
AnyOp(operands) == [node |-> "AnyOp", operands |-> operands]
AllOp(operands) == [node |-> "AllOp", operands |-> operands]
NotOp(operand) == [node |-> "NotOp", operand |-> operand]
\* argspec is the argpairs of the call's ArgspecLiteral: pairs <<var, expr>>
\* with var None or Some("$name").
CallOp(func_name, argspec) ==
    [node |-> "CallOp", func_name |-> func_name, argspec |-> argspec]
ListLiteral(items, comma) ==
    [node |-> "ListLiteral", items |-> items, comma |-> comma]

\* isinstance(node, Literal): no other node class derives from Literal.
IsLiteral(ast) == ast.node = "Literal"

----------------------------------------------------------------------------
(* expression.py: evaluate *)

\* What evaluate gives back: the value returned or the exception raised,
\* with the calls of registered functions made on the way, in order, and the
\* warnings logged.
EvalReturn(v, calls, warnings) ==
    [exc |-> "", value |-> v, calls |-> calls, warnings |-> warnings]
EvalRaise(e, k, calls, warnings) ==
    [exc |-> e, key |-> k, calls |-> calls, warnings |-> warnings]

\* The outcome r of an operator on values, after the given calls.
Lift(r, calls, warnings) ==
    IF r.exc = ""
    THEN EvalReturn(r.value, calls, warnings)
    ELSE EvalRaise(r.exc, r.key, calls, warnings)

\* is_builtin_css_function(name) of scss/cssdefs.py.
is_builtin_css_function(name) == name \in {"url", "rotate", "attr"}

\* The registered callables stand for any Python function: calling one is
\* recorded with its arguments, and gives an unquoted String naming it.
\* A callable named __call (an @function) gets the namespace as first
\* argument through functools.partial.
CallRecord(func, args, kwargs) ==
    [func |-> func, namespace |-> (func = "__call"), args |-> args,
     kwargs |-> kwargs]

CallableResult(func) == String(func, "")

\* args of CallOp.evaluate: the values of the pairs whose var is None.
RECURSIVE PositionalArgs(_, _)
PositionalArgs(argpairs, values) ==
    IF Len(argpairs) = 0 THEN <<>>
    ELSE (IF argpairs[1][1] = None THEN <<values[1]>> ELSE <<>>)
             \o PositionalArgs(Tail(argpairs), Tail(values))

\* The keyword of a named argument, were its hyphens kept.
KeywordOf_hyphens(var) == lstrip(var, "$")

\* The key of a named argument in kwargs: var.lstrip('$').replace('-', '_')
KeywordOf(var) == replace(lstrip(var, "$"), "-", "_")

\* kwargs of CallOp.evaluate: each key with the value assigned to it last.
KeywordArgs(argpairs, values) ==
    LET named == {i \in 1..Len(argpairs) : argpairs[i][1] # None}
        keys == {KeywordOf(argpairs[i][1][1]) : i \in named}
    IN  [k \in keys |->
            LET is == {i \in named : KeywordOf(argpairs[i][1][1]) = k}
            IN  values[CHOOSE i \in is : \A j \in is : j <= i]]

\* rendered_args of CallOp.evaluate
RenderedArgs(argpairs, values) ==
    [i \in 1..Len(argpairs) |->
        IF argpairs[i][1] = None
        THEN Render(values[i])
        ELSE argpairs[i][1][1] \o ": " \o Render(values[i])]

RECURSIVE Evaluate(_, _, _)
RECURSIVE EvaluateEach(_, _, _)

\* [e.evaluate(calculator, divide) for e in exprs]: the values in order, or
\* the first exception raised, later expressions then not evaluated.
EvaluateEach(n, exprs, divide) ==
    IF Len(exprs) = 0
    THEN [exc |-> "", values |-> <<>>, calls |-> <<>>, warnings |-> <<>>]
    ELSE LET first == Evaluate(n, Head(exprs), divide)
         IN  IF first.exc # ""
             THEN first
             ELSE LET rest == EvaluateEach(n, Tail(exprs), divide)
                  IN  IF rest.exc # ""
                      THEN EvalRaise(rest.exc, rest.key,
                                     first.calls \o rest.calls,
                                     first.warnings \o rest.warnings)
                      ELSE [exc |-> "",
                            values |-> <<first.value>> \o rest.values,
                            calls |-> first.calls \o rest.calls,
                            warnings |-> first.warnings \o rest.warnings]

Parentheses_evaluate_passing(n, ast, divide) ==
    Evaluate(n, ast.contents, divide)

\* Parentheses.evaluate
Parentheses_evaluate(n, ast, divide) == Evaluate(n, ast.contents, TRUE)

\* UnaryOp.evaluate
UnaryOp_evaluate(n, ast, divide) ==
    LET o == Evaluate(n, ast.operand, TRUE)
    IN  IF o.exc # "" THEN o
        ELSE Lift(ApplyUnary(ast.op, o.value), o.calls, o.warnings)

BinaryOp_evaluate_one_literal(n, ast, divide) ==
    LET es == EvaluateEach(n, <<ast.left, ast.right>>, TRUE)
    IN  IF es.exc # "" THEN es
        ELSE IF /\ ast.op = "truediv"
                /\ ~divide
                /\ (IsLiteral(ast.left) \/ IsLiteral(ast.right))
        THEN EvalReturn(String(Render(es.values[1]) \o " / "
                                   \o Render(es.values[2]), ""),
                        es.calls, es.warnings)
        ELSE Lift(ApplyBinary(ast.op, es.values[1], es.values[2]),
                  es.calls, es.warnings)

\* BinaryOp.evaluate
BinaryOp_evaluate(n, ast, divide) ==
    LET es == EvaluateEach(n, <<ast.left, ast.right>>, TRUE)
    IN  IF es.exc # "" THEN es
        ELSE IF /\ ast.op = "truediv"
                /\ ~divide
                /\ IsLiteral(ast.left)
                /\ IsLiteral(ast.right)
        THEN EvalReturn(String(Render(es.values[1]) \o " / "
                                   \o Render(es.values[2]), ""),
                        es.calls, es.warnings)
        ELSE Lift(ApplyBinary(ast.op, es.values[1], es.values[2]),
                  es.calls, es.warnings)

RECURSIVE EvaluateUntilTrue(_, _)
EvaluateUntilTrue(n, exprs) ==
    IF Len(exprs) = 0
    THEN EvalReturn(BooleanValue(FALSE), <<>>, <<>>)
    ELSE LET first == Evaluate(n, Head(exprs), TRUE)
         IN  IF first.exc # "" THEN first
             ELSE IF Truth(first.value)
             THEN EvalReturn(BooleanValue(TRUE), first.calls, first.warnings)
             ELSE LET rest == EvaluateUntilTrue(n, Tail(exprs))
                  IN  [rest EXCEPT !.calls = first.calls \o @,
                                   !.warnings = first.warnings \o @]

AnyOp_evaluate_short_circuit(n, ast, divide) ==
    EvaluateUntilTrue(n, ast.operands)

\* AnyOp.evaluate
AnyOp_evaluate(n, ast, divide) ==
    LET es == EvaluateEach(n, ast.operands, TRUE)
    IN  IF es.exc # "" THEN es
        ELSE EvalReturn(
                 BooleanValue(\E i \in 1..Len(es.values) : Truth(es.values[i])),
                 es.calls, es.warnings)

\* AllOp.evaluate
AllOp_evaluate(n, ast, divide) ==
    LET es == EvaluateEach(n, ast.operands, TRUE)
    IN  IF es.exc # "" THEN es
        ELSE EvalReturn(
                 BooleanValue(\A i \in 1..Len(es.values) : Truth(es.values[i])),
                 es.calls, es.warnings)

\* NotOp.evaluate
NotOp_evaluate(n, ast, divide) ==
    LET o == Evaluate(n, ast.operand, TRUE)
    IN  IF o.exc # "" THEN o
        ELSE EvalReturn(BooleanValue(~Truth(o.value)), o.calls, o.warnings)

CallOp_evaluate_raising(n, ast, divide) ==
    LET exprs == [i \in 1..Len(ast.argspec) |-> ast.argspec[i][2]]
        es == EvaluateEach(n, exprs, TRUE)
        func == Namespace_function(dicts, namespaces[n], ast.func_name,
                                   Some(Len(ast.argspec)))
    IN  IF es.exc # "" THEN es
        ELSE IF func.exc = "KeyError"
        THEN EvalRaise("KeyError", func.key, es.calls, es.warnings)
        ELSE EvalReturn(CallableResult(func.value),
                 Append(es.calls,
                        CallRecord(func.value,
                                   PositionalArgs(ast.argspec, es.values),
                                   KeywordArgs(ast.argspec, es.values))),
                 es.warnings)

\* CallOp.evaluate, were num_args the number of unnamed arguments.
CallOp_evaluate_positional(n, ast, divide) ==
    LET exprs == [i \in 1..Len(ast.argspec) |-> ast.argspec[i][2]]
        es == EvaluateEach(n, exprs, TRUE)
        num_args == Len(SelectSeq(ast.argspec, LAMBDA pair : pair[1] = None))
        func == Namespace_function(dicts, namespaces[n], ast.func_name,
                                   Some(num_args))
    IN  IF es.exc # "" THEN es
        ELSE IF func.exc = "KeyError"
        THEN EvalReturn(
                 String(ast.func_name \o "("
                            \o Join(RenderedArgs(ast.argspec, es.values), ", ")
                            \o ")", ""),
                 es.calls,
                 IF ~is_builtin_css_function(ast.func_name)
                 THEN Append(es.warnings, "no such function")
                 ELSE es.warnings)
        ELSE EvalReturn(CallableResult(func.value),
                 Append(es.calls,
                        CallRecord(func.value,
                                   PositionalArgs(ast.argspec, es.values),
                                   KeywordArgs(ast.argspec, es.values))),
                 es.warnings)

\* CallOp.evaluate.  The `name` of line 252 is not read again.
CallOp_evaluate(n, ast, divide) ==
    LET exprs == [i \in 1..Len(ast.argspec) |-> ast.argspec[i][2]]
        es == EvaluateEach(n, exprs, TRUE)
        num_args == Len(ast.argspec)
        func == Namespace_function(dicts, namespaces[n], ast.func_name,
                                   Some(num_args))
    IN  IF es.exc # "" THEN es
        ELSE IF func.exc = "KeyError"
        THEN EvalReturn(
                 String(ast.func_name \o "("
                            \o Join(RenderedArgs(ast.argspec, es.values), ", ")
                            \o ")", ""),
                 es.calls,
                 IF ~is_builtin_css_function(ast.func_name)
                 THEN Append(es.warnings, "no such function")
                 ELSE es.warnings)
        ELSE EvalReturn(CallableResult(func.value),
                 Append(es.calls,
                        CallRecord(func.value,
                                   PositionalArgs(ast.argspec, es.values),
                                   KeywordArgs(ast.argspec, es.values))),
                 es.warnings)

\* Literal.evaluate
Literal_evaluate(n, ast, divide) == EvalReturn(ast.value, <<>>, <<>>)

Variable_evaluate_name(n, ast, divide) ==
    LET r == Namespace_variable(dicts, namespaces[n], ast.name)
    IN  IF r.exc = "KeyError"
        THEN EvalReturn(String(ast.name, ""), <<>>, <<>>)
        ELSE EvalReturn(r.value, <<>>, <<>>)

\* Variable.evaluate.  The values bound in the model are Sass values, none a
\* Python str, so the re-evaluation of lines 317-320 is not entered.
Variable_evaluate(n, ast, divide) ==
    LET r == Namespace_variable(dicts, namespaces[n], ast.name)
    IN  IF r.exc = "KeyError"
        THEN EvalRaise(r.exc, r.key, <<>>, <<>>)
        ELSE EvalReturn(r.value, <<>>, <<>>)

\* ListLiteral.evaluate, were the items evaluated with divide true.
ListLiteral_evaluate_forcing(n, ast, divide) ==
    LET es == EvaluateEach(n, ast.items, TRUE)
    IN  IF es.exc # "" THEN es
        ELSE EvalReturn(ListValue(es.values, IF ast.comma THEN "," ELSE ""),
                        es.calls, es.warnings)

\* ListLiteral.evaluate
ListLiteral_evaluate(n, ast, divide) ==
    LET es == EvaluateEach(n, ast.items, divide)
    IN  IF es.exc # "" THEN es
        ELSE EvalReturn(ListValue(es.values, IF ast.comma THEN "," ELSE ""),
                        es.calls, es.warnings)

\* ast.evaluate(calculator, divide), the calculator's namespace being n.
Evaluate(n, ast, divide) ==
    CASE ast.node = "Literal" -> Literal_evaluate(n, ast, divide)
      [] ast.node = "Variable" -> Variable_evaluate(n, ast, divide)
      [] ast.node = "Parentheses" -> Parentheses_evaluate(n, ast, divide)
      [] ast.node = "UnaryOp" -> UnaryOp_evaluate(n, ast, divide)
      [] ast.node = "BinaryOp" -> BinaryOp_evaluate(n, ast, divide)
      [] ast.node = "AnyOp" -> AnyOp_evaluate(n, ast, divide)
      [] ast.node = "AllOp" -> AllOp_evaluate(n, ast, divide)
      [] ast.node = "NotOp" -> NotOp_evaluate(n, ast, divide)
      [] ast.node = "CallOp" -> CallOp_evaluate(n, ast, divide)
      [] ast.node = "ListLiteral" -> ListLiteral_evaluate(n, ast, divide)

----------------------------------------------------------------------------
(* expression.py: the patterns of SassExpressionScanner *)

LowerChars ==
    {"a", "b", "c", "d", "e", "f", "g", "h", "i", "j", "k", "l", "m", "n",
     "o", "p", "q", "r", "s", "t", "u", "v", "w", "x", "y", "z"}
UpperChars ==
    {"A", "B", "C", "D", "E", "F", "G", "H", "I", "J", "K", "L", "M", "N",
     "O", "P", "Q", "R", "S", "T", "U", "V", "W", "X", "Y", "Z"}
LetterChars == LowerChars \cup UpperChars               \* [a-zA-Z]
DigitChars == {"0", "1", "2", "3", "4", "5", "6", "7", "8", "9"}   \* \d
HexChars ==                                             \* [a-fA-F0-9]
    DigitChars \cup {"a", "b", "c", "d", "e", "f", "A", "B", "C", "D", "E", "F"}
WordChars == LetterChars \cup DigitChars \cup {"_"}     \* \w
NameChars == WordChars \cup {"-"}                       \* [-a-zA-Z0-9_]
NameStartChars == LetterChars \cup {"-", "_"}           \* [-a-zA-Z_]
BlankChars == {" ", "\r", "\t", "\n"}                   \* [ \r\t\n]
SpaceChars == BlankChars \cup {"\f"}                    \* \s

\* The character of s at position i (from 1), "" outside s.
CharAt(s, i) == IF i >= 1 /\ i <= Len(s) THEN SubSeq(s, i, i) ELSE ""

\* s holds the text w at position i.
LooksAt(s, i, w) ==
    i + Len(w) - 1 <= Len(s) /\ SubSeq(s, i, i + Len(w) - 1) = w

\* How many characters of the class follow one another from position i.
RECURSIVE Run(_, _, _)
Run(s, i, class) ==
    IF CharAt(s, i) \in class THEN 1 + Run(s, i + 1, class) ELSE 0

\* How many characters other than ch follow one another from position i.
RECURSIVE RunUntil(_, _, _)
RunUntil(s, i, ch) ==
    IF i <= Len(s) /\ CharAt(s, i) # ch THEN 1 + RunUntil(s, i + 1, ch) ELSE 0

\* The given text at position i: its length, or -1.
MatchText(s, i, w) == IF LooksAt(s, i, w) THEN Len(w) ELSE -1

\* (?<![-\w])word(?![-\w])
MatchKeyword(s, i, w) ==
    IF /\ LooksAt(s, i, w)
       /\ CharAt(s, i - 1) \notin NameChars
       /\ CharAt(s, i + Len(w)) \notin NameChars
    THEN Len(w) ELSE -1

\* 'text' or "text", q being the quote.
MatchQuoted(s, i, q) ==
    IF CharAt(s, i) = q /\ CharAt(s, i + 1 + RunUntil(s, i + 1, q)) = q
    THEN RunUntil(s, i + 1, q) + 2 ELSE -1

\* (?:\d+(?:\.\d*)?|\.\d+)
MatchNum(s, i) ==
    LET whole == Run(s, i, DigitChars)
    IN  IF whole > 0
        THEN IF CharAt(s, i + whole) = "."
             THEN whole + 1 + Run(s, i + whole + 1, DigitChars)
             ELSE whole
        ELSE IF CharAt(s, i) = "." /\ Run(s, i + 1, DigitChars) > 0
        THEN 1 + Run(s, i + 1, DigitChars)
        ELSE -1

\* (?<!\s)(?:[a-zA-Z]+|%)(?![-\w])
MatchUnits(s, i) ==
    LET letters == Run(s, i, LetterChars)
        n == IF letters > 0 THEN letters
             ELSE IF CharAt(s, i) = "%" THEN 1 ELSE 0
    IN  IF /\ n > 0
           /\ CharAt(s, i - 1) \notin SpaceChars
           /\ CharAt(s, i + n) \notin NameChars
        THEN n ELSE -1

\* #(?:[a-fA-F0-9]{6}|[a-fA-F0-9]{3})(?![a-fA-F0-9])
MatchColor(s, i) ==
    IF CharAt(s, i) = "#" /\ Run(s, i + 1, HexChars) \in {3, 6}
    THEN 1 + Run(s, i + 1, HexChars) ELSE -1

\* [-a-zA-Z_][-a-zA-Z0-9_]*
MatchId(s, i) ==
    IF CharAt(s, i) \in NameStartChars THEN Run(s, i, NameChars) ELSE -1

\* The patterns, in the order they are tried.
PatternOrder ==
    <<":", "COMMA", "LPAR", "RPAR", "END", "MUL", "DIV", "ADD", "SUB", "SIGN",
      "AND", "OR", "NOT", "NE", "INV", "EQ", "LE", "GE", "LT", "GT", "STR",
      "QSTR", "UNITS", "NUM", "COLOR", "VAR", "FNCT", "ID">>

\* re.match of the pattern of a token type at position i of s: the length of
\* the match, -1 when there is none.
Match(type, s, i) ==
    CASE type = ":" -> MatchText(s, i, ":")
      [] type = "COMMA" -> MatchText(s, i, ",")
      [] type = "LPAR" -> IF CharAt(s, i) \in {"(", "["} THEN 1 ELSE -1
      [] type = "RPAR" -> IF CharAt(s, i) \in {")", "]"} THEN 1 ELSE -1
      [] type = "END" ->
             IF i = Len(s) + 1 \/ (i = Len(s) /\ CharAt(s, i) = "\n")
             THEN 0 ELSE -1
      [] type = "MUL" -> MatchText(s, i, "*")
      [] type = "DIV" -> MatchText(s, i, "/")
      [] type = "ADD" -> MatchText(s, i, "+")
      [] type = "SUB" ->
             IF CharAt(s, i) = "-" /\ CharAt(s, i + 1) \in SpaceChars
             THEN 2 ELSE -1
      [] type = "SIGN" ->
             IF /\ CharAt(s, i) = "-"
                /\ CharAt(s, i + 1) \notin LetterChars \cup {"_"}
             THEN 1 ELSE -1
      [] type = "AND" -> MatchKeyword(s, i, "and")
      [] type = "OR" -> MatchKeyword(s, i, "or")
      [] type = "NOT" -> MatchKeyword(s, i, "not")
      [] type = "NE" -> MatchText(s, i, "!=")
      [] type = "INV" -> MatchText(s, i, "!")
      [] type = "EQ" -> MatchText(s, i, "==")
      [] type = "LE" -> MatchText(s, i, "<=")
      [] type = "GE" -> MatchText(s, i, ">=")
      [] type = "LT" -> MatchText(s, i, "<")
      [] type = "GT" -> MatchText(s, i, ">")
      [] type = "STR" -> MatchQuoted(s, i, "'")
      [] type = "QSTR" -> MatchQuoted(s, i, "\"")
      [] type = "UNITS" -> MatchUnits(s, i)
      [] type = "NUM" -> MatchNum(s, i)
      [] type = "COLOR" -> MatchColor(s, i)
      [] type = "VAR" ->
             IF CharAt(s, i) = "$" /\ Run(s, i + 1, NameChars) > 0
             THEN 1 + Run(s, i + 1, NameChars) ELSE -1
      [] type = "FNCT" ->
             IF MatchId(s, i) > 0 /\ CharAt(s, i + MatchId(s, i)) = "("
             THEN MatchId(s, i) ELSE -1
      [] type = "ID" -> MatchId(s, i)

----------------------------------------------------------------------------
(* expression.py: the Scanner and the Parser *)

\* No token: what the scanner has when no allowed pattern matches.
NoToken == [type |-> "", text |-> "", end |-> 0]

\* A parser with its scanner: the input, the tokens scanned so far (type,
\* text and the position after the token), Parser._pos (the number of tokens
\* consumed), whether no SyntaxError was raised yet, the token looked at
\* last, the text scanned last and the value the rule that ended last
\* returned.  Once SyntaxError is raised nothing more is done.
Parser_reset(input) ==
    [input |-> input, tokens |-> <<>>, pos |-> 0, ok |-> TRUE,
     tok |-> NoToken, text |-> "", v |-> None]

\* The token of pattern k that is len characters long.
TokenOf(input, start, k, len) ==
    [type |-> PatternOrder[k],
     text |-> SubSeq(input, start, start + len - 1),
     end  |-> start + len]

\* The token of the first of the matching patterns, given by their places
\* in PatternOrder.
Scanner_scan_first(input, start, matching) ==
    IF matching = {} THEN NoToken
    ELSE TokenOf(input, start,
                 CHOOSE k \in matching : \A j \in matching : k <= j,
                 Match(PatternOrder[CHOOSE k \in matching :
                                        \A j \in matching : k <= j],
                       input, start))

Scanner_scan_at(input, start, restrict) ==
    Scanner_scan_first(
        input, start,
        {k \in 1..Len(PatternOrder) :
             /\ PatternOrder[k] \in restrict
             /\ Match(PatternOrder[k], input, start) >= 0})

\* Scanner.scan: the token at character position `at`, blanks skipped, of
\* the first pattern in order that is in the restriction and matches.
Scanner_scan(input, at, restrict) ==
    Scanner_scan_at(input, at + Run(input, at, BlankChars), restrict)

Scanner_token_scanned(p, tok) ==
    IF tok.type = "" THEN [p EXCEPT !.tok = NoToken]
    ELSE [p EXCEPT !.tokens = Append(@, tok), !.tok = tok]

\* Scanner.token(self._pos, restrict): the token at _pos, scanned now when
\* it is the next one, as scanned before when it is cached.
Scanner_token(p, restrict) ==
    IF p.pos < Len(p.tokens)
    THEN [p EXCEPT !.tok = p.tokens[p.pos + 1]]
    ELSE Scanner_token_scanned(
             p, Scanner_scan(p.input,
                             IF Len(p.tokens) = 0 THEN 1
                             ELSE p.tokens[Len(p.tokens)].end,
                             restrict))

\* Parser._peek: tok is the next token, NoToken (type "") for None.
Parser_peek(p, types) == IF p.ok THEN Scanner_token(p, types) ELSE p

Parser_scan_token(p, type) ==
    IF p.tok.type = type
    THEN [p EXCEPT !.pos = @ + 1, !.text = p.tok.text]
    ELSE [p EXCEPT !.ok = FALSE]

\* Parser._scan: the next token is consumed and its text returned, or
\* SyntaxError raised when it is not of the type.
Parser_scan(p, type) ==
    IF p.ok THEN Parser_scan_token(Scanner_token(p, {type}), type) ELSE p

\* Parser._rewind, were the position left where it is.
Parser_rewind_stay(p) == p

\* Parser._rewind(1), with Scanner.rewind dropping the tokens from _pos on.
Parser_rewind(p) ==
    IF ~p.ok THEN p
    ELSE [p EXCEPT !.pos = IF @ < 1 THEN 0 ELSE @ - 1,
                   !.tokens = SubSeq(@, 1, IF p.pos < 1 THEN 0 ELSE p.pos - 1)]

m_expr_chks == {"MUL", "DIV"}
comparison_rsts ==
    {"LPAR", "QSTR", "RPAR", "LE", "COLOR", "NE", "LT", "NUM", "COMMA", "GT",
     "END", "SIGN", "ADD", "FNCT", "STR", "VAR", "EQ", "ID", "AND", "GE",
     "NOT", "OR"}
u_expr_chks == {"LPAR", "COLOR", "QSTR", "NUM", "FNCT", "STR", "VAR", "ID"}
m_expr_rsts ==
    {"LPAR", "SUB", "QSTR", "RPAR", "MUL", "DIV", "LE", "COLOR", "NE", "LT",
     "NUM", "COMMA", "GT", "END", "SIGN", "GE", "FNCT", "STR", "VAR", "EQ",
     "ID", "AND", "ADD", "NOT", "OR"}
argspec_item_rsts_ ==
    {"LPAR", "COLOR", "QSTR", "SIGN", "VAR", "ADD", "NUM", ":", "STR", "NOT",
     "ID", "FNCT"}
expr_lst_rsts == {"END", "COMMA", "RPAR"}
and_test_rsts ==
    {"AND", "LPAR", "END", "COLOR", "QSTR", "SIGN", "VAR", "ADD", "NUM",
     "COMMA", "FNCT", "STR", "NOT", "ID", "RPAR", "OR"}
atom_rsts ==
    {"LPAR", "COLOR", "QSTR", "SIGN", "NOT", "ADD", "NUM", "FNCT", "STR",
     "VAR", "RPAR", "ID"}
u_expr_rsts ==
    {"LPAR", "COLOR", "QSTR", "SIGN", "ADD", "NUM", "FNCT", "STR", "VAR", "ID"}
expr_rsts ==
    {"LPAR", "END", "COLOR", "QSTR", "RPAR", "VAR", "ADD", "NUM", "COMMA",
     "FNCT", "STR", "NOT", "ID", "SIGN", "OR"}
argspec_item_rsts ==
    {"LPAR", "COLOR", "QSTR", "SIGN", "NOT", "ADD", "NUM", "FNCT", "STR",
     "VAR", "ID"}
argspec_rsts == {"COMMA", "RPAR"}
not_test_rsts ==
    {"LPAR", "COLOR", "QSTR", "SIGN", "VAR", "ADD", "NUM", "FNCT", "STR",
     "NOT", "ID"}
atom_rsts_ ==
    {"LPAR", "SUB", "QSTR", "RPAR", "VAR", "MUL", "DIV", "LE", "COLOR", "NE",
     "LT", "NUM", "COMMA", "GT", "END", "SIGN", "GE", "FNCT", "STR", "UNITS",
     "EQ", "ID", "AND", "ADD", "NOT", "OR"}
comparison_chks == {"GT", "GE", "NE", "LT", "LE", "EQ"}
a_expr_chks == {"ADD", "SUB"}
a_expr_rsts ==
    {"LPAR", "SUB", "QSTR", "RPAR", "LE", "COLOR", "NE", "LT", "NUM", "COMMA",
     "GT", "END", "SIGN", "GE", "FNCT", "STR", "VAR", "EQ", "ID", "AND", "ADD",
     "NOT", "OR"}
expr_slst_rsts ==
    {"LPAR", "END", "COLOR", "QSTR", "RPAR", "VAR", "ADD", "NUM", "COMMA",
     "FNCT", "STR", "NOT", "SIGN", "ID"}

\* The values the parser builds that are no number, string, boolean or list.
Null == [t |-> "Null"]
ColorValue(text) == [t |-> "Color", value |-> text]

\* COLOR_NAMES of scss/cssdefs.py.
COLOR_NAMES == {"red", "blue", "white", "black"}

\* parse_bareword, were the keywords matched in any case.
parse_bareword_lower(word) ==
    IF word \in COLOR_NAMES THEN ColorValue(word)
    ELSE IF word \in {"null", "undefined", "NULL", "Null"} THEN Null
    ELSE IF word \in {"true", "True", "TRUE"} THEN BooleanValue(TRUE)
    ELSE IF word \in {"false", "False", "FALSE"} THEN BooleanValue(FALSE)
    ELSE String(word, "")

\* parse_bareword
parse_bareword(word) ==
    IF word \in COLOR_NAMES THEN ColorValue(word)
    ELSE IF word \in {"null", "undefined"} THEN Null
    ELSE IF word = "true" THEN BooleanValue(TRUE)
    ELSE IF word = "false" THEN BooleanValue(FALSE)
    ELSE String(word, "")

\* int(text) of a run of digits, 0 for the empty run.
RECURSIVE ToInt(_)
ToInt(text) ==
    IF text = "" THEN 0
    ELSE 10 * ToInt(SubSeq(text, 1, Len(text) - 1))
             + (CHOOSE d \in 0..9 : Digit(d) = CharAt(text, Len(text)))

RECURSIVE Power10(_)
Power10(n) == IF n = 0 THEN 1 ELSE 10 * Power10(n - 1)

\* NumberValue(float(NUM), unit=unit)
ParseNumber(text, unit) ==
    LET whole == Run(text, 1, DigitChars)
        frac == IF whole < Len(text) THEN SubSeq(text, whole + 2, Len(text))
                ELSE ""
    IN  Reduced(ToInt(SubSeq(text, 1, whole) \o frac), Power10(Len(frac)),
                unit)

\* str.lower()
RECURSIVE lower(_)
lower(text) ==
    IF text = "" THEN ""
    ELSE (IF Head(text) \in UpperChars
          THEN LET k == CHOOSE i \in 1..26 :
                            CharAt("ABCDEFGHIJKLMNOPQRSTUVWXYZ", i) = Head(text)
               IN  CharAt("abcdefghijklmnopqrstuvwxyz", k)
          ELSE Head(text))
             \o lower(Tail(text))

----------------------------------------------------------------------------
(* expression.py: the grammar of SassExpression *)

\* The operator of a BinaryOp built on a token type.
OperatorOf(type) ==
    CASE type = "LT" -> "lt" [] type = "GT" -> "gt" [] type = "LE" -> "le"
      [] type = "GE" -> "ge" [] type = "EQ" -> "eq" [] type = "NE" -> "ne"
      [] type = "ADD" -> "add" [] type = "SUB" -> "sub"
      [] type = "MUL" -> "mul" [] type = "DIV" -> "truediv"

\* return v, unless SyntaxError was raised.
Returns(p, v) == IF p.ok THEN [p EXCEPT !.v = v] ELSE p

\* A rule takes the parser and gives it back with the AST it returns in v.
\* The `while` loop of a rule is three operators: _operand parses one more
\* operand, `left` being what was parsed before it; _while makes v of the
\* two and peeks at the next token; _token goes on when the token is one
\* the loop goes on with.
RECURSIVE SassExpression_expr(_)
RECURSIVE SassExpression_expr_operand(_, _)
RECURSIVE SassExpression_expr_while(_, _)
RECURSIVE SassExpression_expr_token(_)
RECURSIVE SassExpression_and_test(_)
RECURSIVE SassExpression_and_test_operand(_, _)
RECURSIVE SassExpression_and_test_while(_, _)
RECURSIVE SassExpression_and_test_token(_)
RECURSIVE SassExpression_not_test(_)
RECURSIVE SassExpression_not_test_token(_)
RECURSIVE SassExpression_comparison(_)
RECURSIVE SassExpression_comparison_operand(_, _)
RECURSIVE SassExpression_comparison_while(_, _)
RECURSIVE SassExpression_comparison_token(_)
RECURSIVE SassExpression_a_expr(_)
RECURSIVE SassExpression_a_expr_operand(_, _)
RECURSIVE SassExpression_a_expr_while(_, _)
RECURSIVE SassExpression_a_expr_token(_)
RECURSIVE SassExpression_m_expr(_)
RECURSIVE SassExpression_m_expr_operand(_, _)
RECURSIVE SassExpression_m_expr_while(_, _)
RECURSIVE SassExpression_m_expr_token(_)
RECURSIVE SassExpression_u_expr(_)
RECURSIVE SassExpression_u_expr_token(_)
RECURSIVE SassExpression_atom(_)
RECURSIVE SassExpression_atom_token(_)
RECURSIVE SassExpression_atom_argspec(_, _)
RECURSIVE SassExpression_argspec(_)
RECURSIVE SassExpression_argspec_operand(_, _)
RECURSIVE SassExpression_argspec_while(_, _)
RECURSIVE SassExpression_argspec_token(_)
RECURSIVE SassExpression_argspec_item(_)
RECURSIVE SassExpression_argspec_item_token(_)
RECURSIVE SassExpression_argspec_item_colon(_, _)
RECURSIVE SassExpression_argspec_item_value(_, _)
RECURSIVE SassExpression_expr_lst(_)
RECURSIVE SassExpression_expr_lst_operand(_, _)
RECURSIVE SassExpression_expr_lst_while(_, _)
RECURSIVE SassExpression_expr_lst_token(_)
RECURSIVE SassExpression_expr_slst(_)
RECURSIVE SassExpression_expr_slst_operand(_, _)
RECURSIVE SassExpression_expr_slst_while(_, _)
RECURSIVE SassExpression_expr_slst_token(_)

\* SassExpression.goal
SassExpression_goal(p) == Parser_scan(SassExpression_expr_lst(p), "END")

\* v = AnyOp(v, and_test), v = AllOp(v, not_test): left is None at the
\* first operand, the v so far after it.
AnyOf(left, v) == IF left = None THEN v ELSE AnyOp(<<left[1], v>>)
AllOf(left, v) == IF left = None THEN v ELSE AllOp(<<left[1], v>>)

\* The node of a binary operator, were the new operand its left one.
BinaryOf_right(left, v) ==
    IF left = None THEN v ELSE BinaryOp(left[1], v, left[2])

\* v = BinaryOp(operator, v, operand): left is None at the first operand,
\* the operator and the v so far after it.
BinaryOf(left, v) ==
    IF left = None THEN v ELSE BinaryOp(left[1], left[2], v)

\* SassExpression.expr
SassExpression_expr(p) == SassExpression_expr_operand(None, p)

SassExpression_expr_operand(left, p) ==
    SassExpression_expr_while(left, SassExpression_and_test(p))

SassExpression_expr_while(left, r) ==
    IF ~r.ok THEN r
    ELSE SassExpression_expr_token(
             Parser_peek(Returns(r, AnyOf(left, r.v)), expr_rsts))

SassExpression_expr_token(k) ==
    IF k.tok.type = "OR"
    THEN SassExpression_expr_operand(
             Some(k.v),
             Parser_scan(k, "OR"))
    ELSE k

\* SassExpression.and_test
SassExpression_and_test(p) == SassExpression_and_test_operand(None, p)

SassExpression_and_test_operand(left, p) ==
    SassExpression_and_test_while(left, SassExpression_not_test(p))

SassExpression_and_test_while(left, r) ==
    IF ~r.ok THEN r
    ELSE SassExpression_and_test_token(
             Parser_peek(Returns(r, AllOf(left, r.v)), and_test_rsts))

SassExpression_and_test_token(k) ==
    IF k.tok.type = "AND"
    THEN SassExpression_and_test_operand(
             Some(k.v),
             Parser_scan(k, "AND"))
    ELSE k

\* return NotOp(not_test)
Negated(r) == Returns(r, NotOp(r.v))

\* SassExpression.not_test
SassExpression_not_test(p) ==
    SassExpression_not_test_token(Parser_peek(p, not_test_rsts))

SassExpression_not_test_token(k) ==
    IF ~k.ok THEN k
    ELSE IF k.tok.type # "NOT" THEN SassExpression_comparison(k)
    ELSE Negated(SassExpression_not_test(Parser_scan(k, "NOT")))

\* SassExpression.comparison
SassExpression_comparison(p) == SassExpression_comparison_operand(None, p)

SassExpression_comparison_operand(left, p) ==
    SassExpression_comparison_while(left, SassExpression_a_expr(p))

SassExpression_comparison_while(left, r) ==
    IF ~r.ok THEN r
    ELSE SassExpression_comparison_token(
             Parser_peek(Returns(r, BinaryOf(left, r.v)), comparison_rsts))

SassExpression_comparison_token(k) ==
    IF k.tok.type \in comparison_chks
    THEN SassExpression_comparison_operand(
             <<OperatorOf(k.tok.type), k.v>>,
             Parser_scan(Parser_peek(k, comparison_chks), k.tok.type))
    ELSE k

\* SassExpression.a_expr
SassExpression_a_expr(p) == SassExpression_a_expr_operand(None, p)

SassExpression_a_expr_operand(left, p) ==
    SassExpression_a_expr_while(left, SassExpression_m_expr(p))

SassExpression_a_expr_while(left, r) ==
    IF ~r.ok THEN r
    ELSE SassExpression_a_expr_token(
             Parser_peek(Returns(r, BinaryOf(left, r.v)), a_expr_rsts))

SassExpression_a_expr_token(k) ==
    IF k.tok.type \in a_expr_chks
    THEN SassExpression_a_expr_operand(
             <<OperatorOf(k.tok.type), k.v>>,
             Parser_scan(Parser_peek(k, a_expr_chks), k.tok.type))
    ELSE k

\* SassExpression.m_expr
SassExpression_m_expr(p) == SassExpression_m_expr_operand(None, p)

SassExpression_m_expr_operand(left, p) ==
    SassExpression_m_expr_while(left, SassExpression_u_expr(p))

SassExpression_m_expr_while(left, r) ==
    IF ~r.ok THEN r
    ELSE SassExpression_m_expr_token(
             Parser_peek(Returns(r, BinaryOf(left, r.v)), m_expr_rsts))

SassExpression_m_expr_token(k) ==
    IF k.tok.type \in m_expr_chks
    THEN SassExpression_m_expr_operand(
             <<OperatorOf(k.tok.type), k.v>>,
             Parser_scan(Parser_peek(k, m_expr_chks), k.tok.type))
    ELSE k

\* return UnaryOp(operator.neg, u_expr), return UnaryOp(operator.pos, u_expr)
Signed(op, r) == Returns(r, UnaryOp(op, r.v))

\* SassExpression.u_expr
SassExpression_u_expr(p) ==
    SassExpression_u_expr_token(Parser_peek(p, u_expr_rsts))

SassExpression_u_expr_token(k) ==
    IF ~k.ok THEN k
    ELSE IF k.tok.type \in {"SIGN", "ADD"}
    THEN Signed(IF k.tok.type = "SIGN" THEN "neg" ELSE "pos",
                SassExpression_u_expr(Parser_scan(k, k.tok.type)))
    ELSE SassExpression_atom(k)

\* What atom returns after the last token of each of its branches.
AtomParentheses(r) == Returns(r, Parentheses(r.v))
AtomBareword(t) == Returns(t, Literal(parse_bareword(t.text)))
AtomCall(func_name, r) == Returns(r, CallOp(func_name, r.v))
AtomNumber(num, u) == Returns(u, Literal(ParseNumber(num, lower(u.text))))
AtomString(t, quotes) ==
    Returns(t, Literal(String(SubSeq(t.text, 2, Len(t.text) - 1), quotes)))
AtomColor(t) == Returns(t, Literal(ColorValue(t.text)))
AtomVariable(t) == Returns(t, Variable(t.text))

\* The NUM branch of atom after NUM, with the token peeked at.
AtomUnits(num, k) ==
    IF k.ok /\ k.tok.type = "UNITS"
    THEN AtomNumber(num, Parser_scan(k, "UNITS"))
    ELSE Returns(k, Literal(ParseNumber(num, "")))

\* SassExpression.atom
SassExpression_atom(p) ==
    SassExpression_atom_token(Parser_peek(p, u_expr_chks))

SassExpression_atom_token(k) ==
    IF ~k.ok THEN k
    ELSE CASE k.tok.type = "LPAR" ->
                  AtomParentheses(
                      Parser_scan(
                          SassExpression_expr_lst(Parser_scan(k, "LPAR")),
                          "RPAR"))
           [] k.tok.type = "ID" -> AtomBareword(Parser_scan(k, "ID"))
           [] k.tok.type = "FNCT" ->
                  SassExpression_atom_argspec(
                      k.tok.text,
                      Parser_peek(Parser_scan(Parser_scan(k, "FNCT"), "LPAR"),
                                  atom_rsts))
           [] k.tok.type = "NUM" ->
                  AtomUnits(k.tok.text,
                            Parser_peek(Parser_scan(k, "NUM"), atom_rsts_))
           [] k.tok.type = "STR" -> AtomString(Parser_scan(k, "STR"), "'")
           [] k.tok.type = "QSTR" -> AtomString(Parser_scan(k, "QSTR"), "\"")
           [] k.tok.type = "COLOR" -> AtomColor(Parser_scan(k, "COLOR"))
           [] OTHER -> AtomVariable(Parser_scan(k, "VAR"))

\* The FNCT branch of atom after LPAR, with the token peeked at.
SassExpression_atom_argspec(FNCT, k) ==
    AtomCall(FNCT,
             Parser_scan(IF k.ok /\ k.tok.type # "RPAR"
                         THEN SassExpression_argspec(k)
                         ELSE Returns(k, <<>>),
                         "RPAR"))

\* SassExpression.argspec: the argpairs of the ArgspecLiteral returned.
SassExpression_argspec(p) == SassExpression_argspec_operand(<<>>, p)

SassExpression_argspec_operand(left, p) ==
    SassExpression_argspec_while(left, SassExpression_argspec_item(p))

SassExpression_argspec_while(left, r) ==
    IF ~r.ok THEN r
    ELSE SassExpression_argspec_token(
             Parser_peek(Returns(r, Append(left, r.v)), argspec_rsts))

SassExpression_argspec_token(k) ==
    IF k.tok.type = "COMMA"
    THEN SassExpression_argspec_operand(
             k.v,
             Parser_scan(k, "COMMA"))
    ELSE k

\* return (var, expr_slst)
Paired(var, r) == Returns(r, <<var, r.v>>)

\* SassExpression.argspec_item
SassExpression_argspec_item(p) ==
    SassExpression_argspec_item_token(Parser_peek(p, argspec_item_rsts))

SassExpression_argspec_item_token(k) ==
    IF k.ok /\ k.tok.type = "VAR"
    THEN SassExpression_argspec_item_colon(
             k.tok.text,
             Parser_peek(Parser_scan(k, "VAR"), argspec_item_rsts_))
    ELSE SassExpression_argspec_item_value(None, k)

SassExpression_argspec_item_colon(VAR, k) ==
    IF k.ok /\ k.tok.type = ":"
    THEN SassExpression_argspec_item_value(Some(VAR), Parser_scan(k, ":"))
    ELSE SassExpression_argspec_item_value(None, Parser_rewind(k))

SassExpression_argspec_item_value(var, p) ==
    Paired(var, SassExpression_expr_slst(p))

\* The list a rule returns, were a list of one item kept a list.
Collapsed_kept(r, comma) == Returns(r, ListLiteral(r.v, comma))

\* return ListLiteral(v, comma=...) if len(v) > 1 else v[0]
Collapsed(r, comma) ==
    Returns(r, IF Len(r.v) > 1 THEN ListLiteral(r.v, comma) ELSE r.v[1])

\* SassExpression.expr_lst
SassExpression_expr_lst(p) ==
    Collapsed(SassExpression_expr_lst_operand(<<>>, p), TRUE)

SassExpression_expr_lst_operand(left, p) ==
    SassExpression_expr_lst_while(left, SassExpression_expr_slst(p))

SassExpression_expr_lst_while(left, r) ==
    IF ~r.ok THEN r
    ELSE SassExpression_expr_lst_token(
             Parser_peek(Returns(r, Append(left, r.v)), expr_lst_rsts))

SassExpression_expr_lst_token(k) ==
    IF k.tok.type = "COMMA"
    THEN SassExpression_expr_lst_operand(
             k.v,
             Parser_scan(k, "COMMA"))
    ELSE k

\* SassExpression.expr_slst
SassExpression_expr_slst(p) ==
    Collapsed(SassExpression_expr_slst_operand(<<>>, p), FALSE)

SassExpression_expr_slst_operand(left, p) ==
    SassExpression_expr_slst_while(left, SassExpression_expr(p))

SassExpression_expr_slst_while(left, r) ==
    IF ~r.ok THEN r
    ELSE SassExpression_expr_slst_token(
             Parser_peek(Returns(r, Append(left, r.v)), expr_slst_rsts))

SassExpression_expr_slst_token(k) ==
    IF k.tok.type \notin expr_lst_rsts
    THEN SassExpression_expr_slst_operand(
             k.v,
             k)
    ELSE k

\* parser.reset(expr); parser.goal(): the parser afterwards, with the AST in
\* v, or not ok for SyntaxError.
Parse(expr) == SassExpression_goal(Parser_reset(expr))

----------------------------------------------------------------------------
(* expression.py: the Calculator *)

\* What a Calculator method gives back: the value returned or the exception
\* raised, and ast_cache as the call leaves it.
Done(v, cache) == [exc |-> "", value |-> v, cache |-> cache]
Failed(e, k, cache) == [exc |-> e, key |-> k, cache |-> cache]

\* ast_cache = {}
EmptyCache == [expr \in {} |-> None]

\* A str object, as calculate returns it when it falls back to the text.
Str(text) == [t |-> "str", value |-> text]

\* A new AST object: no object of the cache is this one.
NewAst(ast, cache) ==
    [ast |-> ast,
     id  |-> IF DOMAIN cache = {} THEN 1
             ELSE 1 + CHOOSE i \in {cache[e].id : e \in DOMAIN cache} :
                          \A e \in DOMAIN cache : cache[e].id <= i]

\* ast_cache[expr] = ast
Store(cache, expr, object) ==
    [e \in DOMAIN cache \cup {expr} |-> IF e = expr THEN object ELSE cache[e]]

\* w in s
Contains(s, w) == \E i \in 1..Len(s) : LooksAt(s, i, w)

\* Where w first is in s at or after position i, 0 if nowhere.
RECURSIVE Find(_, _, _)
Find(s, i, w) ==
    IF i > Len(s) THEN 0
    ELSE IF LooksAt(s, i, w) THEN i
    ELSE Find(s, i + 1, w)

\* dequote(s) of scss/util.py: s without the quotes around it.
dequote(s) ==
    IF /\ Len(s) > 0
       /\ CharAt(s, 1) \in {"\"", "'"}
       /\ CharAt(s, Len(s)) = CharAt(s, 1)
    THEN SubSeq(s, 2, Len(s) - 1)
    ELSE s

\* The match of _interpolate_re at position i whose $ is at `dollar` and
\* whose name is `name` characters long, `close` being where } has to be
\* when #{ is at i.
interpolate_re_match(s, i, braced, dollar, name, close) ==
    IF name = 0 \/ (braced /\ CharAt(s, close) # "}")
    THEN [len |-> 0, name |-> "", braced |-> braced]
    ELSE [len    |-> IF braced THEN close - i + 1 ELSE dollar + 1 + name - i,
          name   |-> SubSeq(s, dollar, dollar + name),
          braced |-> braced]

interpolate_re_name(s, i, braced, dollar, name) ==
    interpolate_re_match(
        s, i, braced, dollar, name,
        dollar + 1 + name + Run(s, dollar + 1 + name, SpaceChars))

interpolate_re_dollar(s, i, braced, dollar) ==
    interpolate_re_name(
        s, i, braced, dollar,
        IF CharAt(s, dollar) = "$" THEN Run(s, dollar + 1, NameChars) ELSE 0)

\* _interpolate_re of scss/cssdefs.py, (#\{\s*)?(\$[-\w]+)(?(1)\s*\}),
\* matched at position i: how long the match is (0 for none), its group 2
\* and whether group 1 took part.
interpolate_re(s, i) ==
    IF LooksAt(s, i, "#{")
    THEN interpolate_re_dollar(s, i, TRUE, i + 2 + Run(s, i + 2, SpaceChars))
    ELSE interpolate_re_dollar(s, i, FALSE, i)

RECURSIVE Calculator_evaluate_expression(_, _, _, _)
RECURSIVE Calculator_evaluate_expression_parsed(_, _, _, _, _)
RECURSIVE Calculator_calculate_expr(_, _, _, _)
RECURSIVE Calculator_calculate_expr_evaluated(_, _, _, _)
RECURSIVE Calculator_do_glob_math(_, _, _, _)
RECURSIVE expr_glob_re_sub(_, _, _, _, _)
RECURSIVE expr_glob_re_sub_rest(_, _, _, _, _)
RECURSIVE Calculator_apply_vars(_, _, _, _)
RECURSIVE Calculator_apply_vars_applied(_, _, _, _)

\* What ast.evaluate(self) gives, as the result of the method calling it.
Evaluated(r, cache) ==
    IF r.exc = "" THEN Done(Some(r.value), cache)
    ELSE Failed(r.exc, r.key, cache)

\* The part of evaluate_expression after the parse, were the evaluation
\* inside the try.
Calculator_evaluate_expression_guarded(n, expr, cache, debug, P) ==
    IF ~P.ok
    THEN IF debug THEN Failed("SyntaxError", expr, cache)
                  ELSE Done(None, cache)
    ELSE IF debug \/ Evaluate(n, P.v, FALSE).exc = ""
    THEN Evaluated(Evaluate(n, P.v, FALSE),
                   Store(cache, expr, NewAst(P.v, cache)))
    ELSE Done(None, Store(cache, expr, NewAst(P.v, cache)))

\* The part of evaluate_expression after the parse, were the AST stored
\* the value the expression has when it is parsed.
Calculator_evaluate_expression_folding(n, expr, cache, debug, P) ==
    IF ~P.ok
    THEN IF debug THEN Failed("SyntaxError", expr, cache)
                  ELSE Done(None, cache)
    ELSE IF Evaluate(n, P.v, FALSE).exc # ""
    THEN Evaluated(Evaluate(n, P.v, FALSE),
                   Store(cache, expr, NewAst(P.v, cache)))
    ELSE Evaluated(Evaluate(n, P.v, FALSE),
                   Store(cache, expr,
                         NewAst(Literal(Evaluate(n, P.v, FALSE).value),
                                cache)))

\* The part of evaluate_expression after the parse, P being the parser
\* after goal(): a parse that fails gives None unless config.DEBUG; the AST
\* of a parse that succeeds is stored and then evaluated, in the else clause
\* of the try.
Calculator_evaluate_expression_parsed(n, expr, cache, debug, P) ==
    IF ~P.ok
    THEN IF debug THEN Failed("SyntaxError", expr, cache)
                  ELSE Done(None, cache)
    ELSE Evaluated(Evaluate(n, P.v, FALSE),
                   Store(cache, expr, NewAst(P.v, cache)))

\* Calculator.evaluate_expression, the calculator's namespace being n and
\* expr a str.  The fast path gives the value of a variable named by the
\* whole text; a cached AST is evaluated, outside any try; any other text
\* is parsed.
Calculator_evaluate_expression(n, expr, cache, debug) ==
    IF Namespace_variable(dicts, namespaces[n], expr).exc = ""
    THEN Done(Some(Namespace_variable(dicts, namespaces[n], expr).value),
              cache)
    ELSE IF expr \in DOMAIN cache
    THEN Evaluated(Evaluate(n, cache[expr].ast, FALSE), cache)
    ELSE Calculator_evaluate_expression_parsed(n, expr, cache, debug,
                                               Parse(expr))

\* The part of parse_expression after the parse, were the text not looked
\* up in the cache before.
Calculator_parse_expression_replacing(expr, cache, P) ==
    IF ~P.ok THEN Failed("SyntaxError", expr, cache)
    ELSE Done(NewAst(P.v, cache), Store(cache, expr, NewAst(P.v, cache)))

\* The part of parse_expression after the parse, P being the parser after
\* goal(): the AST object of the cache, stored first when the text is not in
\* the cache.  No try is around the parse.
Calculator_parse_expression_parsed(expr, cache, P) ==
    IF expr \in DOMAIN cache THEN Done(cache[expr], cache)
    ELSE IF ~P.ok THEN Failed("SyntaxError", expr, cache)
    ELSE Done(NewAst(P.v, cache), Store(cache, expr, NewAst(P.v, cache)))

\* Calculator.parse_expression
Calculator_parse_expression(expr, cache) ==
    Calculator_parse_expression_parsed(expr, cache, Parse(expr))

\* Calculator._calculate_expr on the group 1 of a match: the text that
\* replaces the match.
Calculator_calculate_expr(n, group1, cache, debug) ==
    Calculator_calculate_expr_evaluated(
        n, group1, debug,
        Calculator_evaluate_expression(n, group1, cache, debug))

Calculator_calculate_expr_evaluated(n, group1, debug, r) ==
    IF r.exc # "" THEN r
    ELSE IF r.value = None
    THEN Calculator_apply_vars(n, group1, r.cache, debug)
    ELSE Done(dequote(Render(r.value[1])), r.cache)

\* What the text of a match and the text after it make.
Joined(this, rest) ==
    IF rest.exc # "" THEN rest
    ELSE Done(this.value \o rest.value, rest.cache)

\* _expr_glob_re.sub(self._calculate_expr, cont) from position i on, where
\* _expr_glob_re of scss/cssdefs.py is #\{(.*?)\}.
expr_glob_re_sub(n, cont, i, cache, debug) ==
    IF i > Len(cont) THEN Done("", cache)
    ELSE IF LooksAt(cont, i, "#{") /\ Find(cont, i + 2, "}") # 0
    THEN expr_glob_re_sub_rest(
             n, cont, Find(cont, i + 2, "}") + 1, debug,
             Calculator_calculate_expr(
                 n, SubSeq(cont, i + 2, Find(cont, i + 2, "}") - 1),
                 cache, debug))
    ELSE expr_glob_re_sub_rest(n, cont, i + 1, debug,
                               Done(CharAt(cont, i), cache))

expr_glob_re_sub_rest(n, cont, i, debug, this) ==
    IF this.exc # "" THEN this
    ELSE Joined(this, expr_glob_re_sub(n, cont, i, this.cache, debug))

\* Calculator.do_glob_math on a str
Calculator_do_glob_math(n, cont, cache, debug) ==
    IF ~Contains(cont, "#{") THEN Done(cont, cache)
    ELSE expr_glob_re_sub(n, cont, 1, cache, debug)

\* _av(m): what replaces the match m of _interpolate_re in cont at i, v
\* being what self.namespace.variable(m.group(2)) gives; no try is around
\* that call.
interpolate_re_av(cont, i, m, v) ==
    IF v.exc # "" THEN v
    ELSE IF ~Truth(v.value) THEN Return(SubSeq(cont, i, i + m.len - 1))
    ELSE IF m.braced THEN Return(dequote(Render(v.value)))
    ELSE Return(Render(v.value))

\* What the replacement of a match and the text after it make.
Replaced(this, rest) ==
    IF this.exc # "" THEN this
    ELSE IF rest.exc # "" THEN rest
    ELSE Return(this.value \o rest.value)

\* _interpolate_re.sub(_av, cont) from position i on.
RECURSIVE interpolate_re_sub(_, _, _)
RECURSIVE interpolate_re_sub_match(_, _, _, _)
interpolate_re_sub(n, cont, i) ==
    IF i > Len(cont) THEN Return("")
    ELSE interpolate_re_sub_match(n, cont, i, interpolate_re(cont, i))

interpolate_re_sub_match(n, cont, i, m) ==
    IF m.len = 0
    THEN Replaced(Return(CharAt(cont, i)), interpolate_re_sub(n, cont, i + 1))
    ELSE Replaced(interpolate_re_av(
                      cont, i, m,
                      Namespace_variable(dicts, namespaces[n], m.name)),
                  interpolate_re_sub(n, cont, i + m.len))

\* Calculator.apply_vars on a str
Calculator_apply_vars(n, cont, cache, debug) ==
    Calculator_apply_vars_applied(
        n, cache, debug,
        IF ~Contains(cont, "$") THEN Return(cont)
        ELSE IF Namespace_variable(dicts, namespaces[n], cont).exc = ""
        THEN Return(Render(Namespace_variable(dicts, namespaces[n],
                                              cont).value))
        ELSE interpolate_re_sub(n, cont, 1))

Calculator_apply_vars_applied(n, cache, debug, cont) ==
    IF cont.exc # "" THEN Failed(cont.exc, cont.key, cache)
    ELSE Calculator_do_glob_math(n, cont.value, cache, debug)

\* return better_expr_str, the str that apply_vars gave
Applied(text) ==
    IF text.exc # "" THEN text ELSE Done(Some(Str(text.value)), text.cache)

Calculator_calculate_evaluated(n, base_str, debug, r) ==
    IF r.exc # "" \/ r.value # None THEN r
    ELSE Applied(Calculator_apply_vars(n, base_str, r.cache, debug))

Calculator_calculate_interpolated(n, base_str, debug, glob) ==
    IF glob.exc # "" THEN glob
    ELSE Calculator_calculate_evaluated(
             n, base_str, debug,
             Calculator_evaluate_expression(n, glob.value, glob.cache, debug))

\* Calculator.calculate on a str
Calculator_calculate(n, base_str, cache, debug) ==
    Calculator_calculate_interpolated(
        n, base_str, debug,
        Calculator_do_glob_math(n, base_str, cache, debug))

----------------------------------------------------------------------------
(* functions/core.py: the builtins that make and change colors *)

\* A Python float, kept as the exact fraction num/den in lowest terms with
\* den > 0: the builtins only add, subtract, multiply, divide and compare.
Float(num, den) ==
    [num |-> (IF den < 0 THEN -1 ELSE 1) * (num \div Gcd(Abs(num), Abs(den))),
     den |-> (IF den < 0 THEN -1 ELSE 1) * (den \div Gcd(Abs(num), Abs(den)))]

Whole(i) == Float(i, 1)
FloatAdd(x, y) == Float(x.num * y.den + y.num * x.den, x.den * y.den)
FloatSub(x, y) == Float(x.num * y.den - y.num * x.den, x.den * y.den)
FloatMul(x, y) == Float(x.num * y.num, x.den * y.den)
FloatDiv(x, y) == Float(x.num * y.den, x.den * y.num)
FloatLess(x, y) == x.num * y.den < y.num * x.den

\* x % m for m > 0, as Python gives it: in [0, m).
FloatMod(x, m) ==
    FloatSub(x, FloatMul(m, Whole((x.num * m.den) \div (x.den * m.num))))

\* NumberValue.value, and NumberValue(n).value of a number n.
ValueOf(n) == Float(n.num, n.den)

\* _constrain, were n given back as it is.
constrain_unbounded(n, lb, ub) == n

\* _constrain
constrain(n, lb, ub) ==
    IF FloatLess(n, lb) THEN lb
    ELSE IF FloatLess(ub, n) THEN ub
    ELSE n

\* _apply_percentage
apply_percentage(n, relto) ==
    IF n.t # "Number" THEN Raise("TypeError", "Expected number")
    ELSE IF n.unit = "" THEN Return(ValueOf(n))
    ELSE IF n.unit = "%"
    THEN Return(FloatDiv(FloatMul(ValueOf(n), relto), Whole(100)))
    ELSE Raise("TypeError", "Expected unitless number or percentage")

\* A ColorValue object: its channels r, g, b, a and the kind it was made as.
ColorObject(value, type) == [t |-> "Color", value |-> value, type |-> type]

\* What a builtin gives: the objects there are after the call and the place
\* of the object returned among them, or the exception raised.
Made(heap, ref) == [exc |-> "", heap |-> heap, ref |-> ref]

\* ColorValue(color) of a ColorValue: a new object with the same channels.
ColorValue_copy(heap, color) == Made(Append(heap, heap[color]), Len(heap) + 1)

\* color.value = tuple(c)
ColorValue_set_value(made, c) ==
    Made([made.heap EXCEPT ![made.ref].value = c], made.ref)

\* The channels of rgba once none of _apply_percentage's calls has raised.
rgba_channels(heap, r, g, b, a, type) ==
    Made(Append(heap,
                ColorObject(<<constrain(r.value, Whole(0), Whole(255)),
                              constrain(g.value, Whole(0), Whole(255)),
                              constrain(b.value, Whole(0), Whole(255)),
                              constrain(a.value, Whole(0), Whole(1))>>,
                            type)),
         Len(heap) + 1)

\* The first of the results that raised, r if none did.
FirstRaised(r, g, b, a) ==
    IF r.exc # "" THEN r ELSE IF g.exc # "" THEN g
    ELSE IF b.exc # "" THEN b ELSE a

\* rgba(r, g, b, a, type)
rgba(heap, r, g, b, a, type) ==
    IF FirstRaised(apply_percentage(r, Whole(255)),
                   apply_percentage(g, Whole(255)),
                   apply_percentage(b, Whole(255)),
                   apply_percentage(a, Whole(1))).exc # ""
    THEN FirstRaised(apply_percentage(r, Whole(255)),
                     apply_percentage(g, Whole(255)),
                     apply_percentage(b, Whole(255)),
                     apply_percentage(a, Whole(1)))
    ELSE rgba_channels(heap,
                       apply_percentage(r, Whole(255)),
                       apply_percentage(g, Whole(255)),
                       apply_percentage(b, Whole(255)),
                       apply_percentage(a, Whole(1)),
                       type)

\* rgb(r, g, b)
rgb(heap, r, g, b) == rgba(heap, r, g, b, NumberValue(1, 1, ""), "rgb")

\* The operator of __rgba_op and __hsl_op on a channel c and an amount a
\* that is given: "" is None, and the amount takes the channel's place.
ChannelOp(op, c, a) ==
    CASE op = "add" -> FloatAdd(c, a)
      [] op = "sub" -> FloatSub(c, a)
      [] op = "mul" -> FloatMul(c, a)
      [] op = "" -> a

\* One channel of __rgba_op: the amount a is None, or Some of a number whose
\* value NumberValue(a).value is; ub is 255.0 or 1.0.
rgba_op_channel(op, c, a, ub) ==
    constrain(IF a = None THEN c ELSE ChannelOp(op, c, ValueOf(a[1])),
              Whole(0), ub)

\* __rgba_op
rgba_op(op, heap, color, r, g, b, a) ==
    ColorValue_set_value(
        ColorValue_copy(heap, color),
        <<rgba_op_channel(op, heap[color].value[1], r, Whole(255)),
          rgba_op_channel(op, heap[color].value[2], g, Whole(255)),
          rgba_op_channel(op, heap[color].value[3], b, Whole(255)),
          rgba_op_channel(op, heap[color].value[4], a, Whole(1))>>)

\* The 0 that opacify, lighten and the like pass for a channel left alone.
LiteralZero == Some(NumberValue(0, 1, ""))

\* opacify and transparentize
opacify(heap, color, amount) ==
    rgba_op("add", heap, color, LiteralZero, LiteralZero, LiteralZero, Some(amount))
transparentize(heap, color, amount) ==
    rgba_op("sub", heap, color, LiteralZero, LiteralZero, LiteralZero, Some(amount))

\* invert
invert(heap, color) ==
    ColorValue_set_value(
        ColorValue_copy(heap, color),
        <<FloatSub(Whole(255), heap[color].value[1]),
          FloatSub(Whole(255), heap[color].value[2]),
          FloatSub(Whole(255), heap[color].value[3]),
          heap[color].value[4]>>)

FloatMax(x, y) == IF FloatLess(x, y) THEN y ELSE x
FloatMin(x, y) == IF FloatLess(y, x) THEN y ELSE x

\* colorsys.rgb_to_hls once maxc and minc are known: <<h, l, s>>.
rgb_to_hls_of(r, g, b, maxc, minc) ==
    LET l == FloatDiv(FloatAdd(minc, maxc), Whole(2))
        d == FloatSub(maxc, minc)
        s == IF ~FloatLess(Float(1, 2), l)
             THEN FloatDiv(d, FloatAdd(maxc, minc))
             ELSE FloatDiv(d, FloatSub(FloatSub(Whole(2), maxc), minc))
        rc == FloatDiv(FloatSub(maxc, r), d)
        gc == FloatDiv(FloatSub(maxc, g), d)
        bc == FloatDiv(FloatSub(maxc, b), d)
        h == IF r = maxc THEN FloatSub(bc, gc)
             ELSE IF g = maxc THEN FloatSub(FloatAdd(Whole(2), rc), bc)
             ELSE FloatSub(FloatAdd(Whole(4), gc), rc)
    IN  IF minc = maxc THEN <<Whole(0), l, Whole(0)>>
        ELSE <<FloatMod(FloatDiv(h, Whole(6)), Whole(1)), l, s>>

\* colorsys.rgb_to_hls
rgb_to_hls(r, g, b) ==
    rgb_to_hls_of(r, g, b, FloatMax(FloatMax(r, g), b),
                  FloatMin(FloatMin(r, g), b))

\* colorsys._v
hls_v(m1, m2, hue) ==
    LET h == FloatMod(hue, Whole(1))
    IN  IF FloatLess(h, Float(1, 6))
        THEN FloatAdd(m1, FloatMul(FloatMul(FloatSub(m2, m1), h), Whole(6)))
        ELSE IF FloatLess(h, Float(1, 2)) THEN m2
        ELSE IF FloatLess(h, Float(2, 3))
        THEN FloatAdd(m1, FloatMul(FloatMul(FloatSub(m2, m1),
                                            FloatSub(Float(2, 3), h)),
                                   Whole(6)))
        ELSE m1

\* colorsys.hls_to_rgb once m2 is known.
hls_to_rgb_of(h, l, m2) ==
    <<hls_v(FloatSub(FloatMul(Whole(2), l), m2), m2, FloatAdd(h, Float(1, 3))),
      hls_v(FloatSub(FloatMul(Whole(2), l), m2), m2, h),
      hls_v(FloatSub(FloatMul(Whole(2), l), m2), m2, FloatSub(h, Float(1, 3)))>>

\* colorsys.hls_to_rgb
hls_to_rgb(h, l, s) ==
    IF s = Whole(0) THEN <<l, l, l>>
    ELSE hls_to_rgb_of(h, l,
                       IF ~FloatLess(Float(1, 2), l)
                       THEN FloatMul(l, FloatAdd(Whole(1), s))
                       ELSE FloatSub(FloatAdd(l, s), FloatMul(l, s)))

\* One of h, s, l in __hsl_op after "Do the additions": a is None or Some
\* of the amount as a float.
hsl_op_channel(op, c, a) ==
    IF FloatLess(c, Whole(0)) THEN Whole(0)
    ELSE IF FloatLess(Whole(1), c) THEN Whole(1)
    ELSE IF a = None THEN c
    ELSE ChannelOp(op, c, a[1])

\* 0.99999999 if c == 1 else c
NotQuiteOne(c) == IF c = Whole(1) THEN Float(99999999, 100000000) ELSE c

\* __hsl_op from "Validations" on: c is <<h, s, l>> after the additions.
hsl_op_back(made, c, alpha) ==
    LET back == hls_to_rgb(
                   FloatDiv(constrain(FloatMod(FloatMul(c[1], Whole(360)),
                                               Whole(360)),
                                      Whole(0), Whole(360)),
                            Whole(360)),
                   NotQuiteOne(constrain(c[3], Whole(0), Whole(1))),
                   NotQuiteOne(constrain(c[2], Whole(0), Whole(1))))
    IN  ColorValue_set_value(made,
                             <<FloatMul(back[1], Whole(255)),
                               FloatMul(back[2], Whole(255)),
                               FloatMul(back[3], Whole(255)),
                               alpha>>)

\* __hsl_op once the amounts a = <<h, s, l>> are floats or None: hls is
\* <<h, l, s>> of the color.
hsl_op_with(op, made, hls, a, alpha) ==
    hsl_op_back(made,
                <<hsl_op_channel(op, hls[1], a[1]),
                  hsl_op_channel(op, hls[3], a[2]),
                  hsl_op_channel(op, hls[2], a[3])>>,
                alpha)

\* _apply_percentage(s) of an amount that may be None.
AmountOf(s) == IF s = None THEN Return(None)
               ELSE IF apply_percentage(s[1], Whole(1)).exc # ""
               THEN apply_percentage(s[1], Whole(1))
               ELSE Return(Some(apply_percentage(s[1], Whole(1)).value))

\* __hsl_op
hsl_op(op, heap, color, h, s, l) ==
    IF AmountOf(s).exc # "" THEN AmountOf(s)
    ELSE IF AmountOf(l).exc # "" THEN AmountOf(l)
    ELSE hsl_op_with(op, ColorValue_copy(heap, color),
                     rgb_to_hls(FloatDiv(heap[color].value[1], Whole(255)),
                                FloatDiv(heap[color].value[2], Whole(255)),
                                FloatDiv(heap[color].value[3], Whole(255))),
                     <<IF h = None THEN None
                       ELSE Some(FloatDiv(ValueOf(h[1]), Whole(360))),
                       AmountOf(s).value, AmountOf(l).value>>,
                     heap[color].value[4])

\* lighten, darken, saturate, desaturate, adjust-hue
lighten(heap, color, amount) ==
    hsl_op("add", heap, color, LiteralZero, LiteralZero, Some(amount))
darken(heap, color, amount) ==
    hsl_op("sub", heap, color, LiteralZero, LiteralZero, Some(amount))
saturate(heap, color, amount) ==
    hsl_op("add", heap, color, LiteralZero, Some(amount), LiteralZero)
desaturate(heap, color, amount) ==
    hsl_op("sub", heap, color, LiteralZero, Some(amount), LiteralZero)
adjust_hue(heap, color, degrees) ==
    hsl_op("add", heap, color, Some(degrees), LiteralZero, LiteralZero)

\* "x or y" of two keyword arguments that default to None.
Given(x) == x # None /\ Truth(x[1])

\* The second half of _asc_color: made is what the first half left.
asc_color_rgba(op, made, red, green, blue, alpha) ==
    IF made.exc # "" THEN made
    ELSE IF Given(red) \/ Given(green) \/ Given(blue) \/ Given(alpha)
    THEN rgba_op(op, made.heap, made.ref, red, green, blue, alpha)
    ELSE made

\* _asc_color
asc_color(op, heap, color, saturation, lightness, red, green, blue, alpha) ==
    asc_color_rgba(op,
                   IF Given(lightness) \/ Given(saturation)
                   THEN hsl_op(op, heap, color, LiteralZero, saturation,
                               lightness)
                   ELSE Made(heap, color),
                   red, green, blue, alpha)

\* adjust-color, scale-color and change-color
adjust_color(heap, color, saturation, lightness, red, green, blue, alpha) ==
    asc_color("add", heap, color, saturation, lightness, red, green, blue,
              alpha)
scale_color(heap, color, saturation, lightness, red, green, blue, alpha) ==
    asc_color("mul", heap, color, saturation, lightness, red, green, blue,
              alpha)
change_color(heap, color, saturation, lightness, red, green, blue, alpha) ==
    asc_color("", heap, color, saturation, lightness, red, green, blue,
              alpha)

----------------------------------------------------------------------------
(* functions/compass/helpers.py: elements-of-type, enumerate and range *)

\* str.replace(old, new) for one-character old and new, one half of a long
\* text after the other.
RECURSIVE replace_halves(_, _, _)
replace_halves(s, old, new) ==
    IF Len(s) <= 16 THEN replace(s, old, new)
    ELSE replace_halves(SubSeq(s, 1, Len(s) \div 2), old, new)
             \o replace_halves(SubSeq(s, Len(s) \div 2 + 1, Len(s)), old, new)

\* Where the k-th sep of s is.
SepAt(s, sep, k) ==
    CHOOSE p \in 1..Len(s) :
        /\ CharAt(s, p) = sep
        /\ Cardinality({q \in 1..(p - 1) : CharAt(s, q) = sep}) = k - 1

\* str.split(sep) for a one-character sep: the words before, between and
\* after the seps.
split(s, sep) ==
    LET n == Cardinality({q \in 1..Len(s) : CharAt(s, q) = sep})
    IN  [k \in 1..(n + 1) |->
             SubSeq(s,
                    IF k = 1 THEN 1 ELSE SepAt(s, sep, k - 1) + 1,
                    IF k = n + 1 THEN Len(s) ELSE SepAt(s, sep, k) - 1)]

\* ord(ch) as far as the order of digits and small letters goes.
Ord(ch) == Find("0123456789abcdefghijklmnopqrstuvwxyz", 1, ch)

\* s < t on str.
RECURSIVE StrLess(_, _)
StrLess(s, t) ==
    IF t = "" THEN FALSE
    ELSE IF s = "" THEN TRUE
    ELSE IF Head(s) = Head(t) THEN StrLess(Tail(s), Tail(t))
    ELSE Ord(Head(s)) < Ord(Head(t))

\* sorted(strs), one word put in its place at a time.
RECURSIVE Inserted(_, _)
Inserted(strs, w) ==
    IF strs = <<>> THEN <<w>>
    ELSE IF StrLess(w, Head(strs)) THEN <<w>> \o strs
    ELSE <<Head(strs)>> \o Inserted(Tail(strs), w)

RECURSIVE sorted(_)
sorted(strs) ==
    IF strs = <<>> THEN <<>>
    ELSE Inserted(sorted(SubSeq(strs, 1, Len(strs) - 1)), strs[Len(strs)])

elements_of_type_block ==
    "address, article, aside, blockquote, center, dd, details, dir, div, dl, dt, fieldset, figcaption, figure, footer, form, frameset, h1, h2, h3, h4, h5, h6, header, hgroup, hr, isindex, menu, nav, noframes, noscript, ol, p, pre, section, summary, ul"
elements_of_type_inline ==
    "a, abbr, acronym, audio, b, basefont, bdo, big, br, canvas, cite, code, command, datalist, dfn, em, embed, font, i, img, input, kbd, keygen, label, mark, meter, output, progress, q, rp, rt, ruby, s, samp, select, small, span, strike, strong, sub, sup, textarea, time, tt, u, var, video, wbr"
elements_of_type_table == "table"
elements_of_type_list_item == "li"
elements_of_type_table_row_group == "tbody"
elements_of_type_table_header_group == "thead"
elements_of_type_table_footer_group == "tfoot"
elements_of_type_table_row == "tr"
elements_of_type_table_cel == "td, th"
elements_of_type_html5_block ==
    "article, aside, details, figcaption, figure, footer, header, hgroup, menu, nav, section, summary"
elements_of_type_html5_inline ==
    "audio, canvas, command, datalist, embed, keygen, mark, meter, output, progress, rp, rt, ruby, time, video, wbr"
elements_of_type_html5 ==
    "article, aside, audio, canvas, command, datalist, details, embed, figcaption, figure, footer, header, hgroup, keygen, mark, menu, meter, nav, output, progress, rp, rt, ruby, section, summary, time, video, wbr"

\* sorted(text.replace(' ', '').split(','))
Elements(text) == sorted(split(replace_halves(text, " ", ""), ","))

\* The keys of _elements_of_type.
DisplayTypes ==
    {"block", "inline", "table", "list-item", "table-row-group",
     "table-header-group", "table-footer-group", "table-row", "table-cell",
     "html5-block", "html5-inline", "html5"}

\* _elements_of_type[d]
elements_of_type_dict(d) ==
    CASE d = "block" -> Elements(elements_of_type_block)
      [] d = "inline" -> Elements(elements_of_type_inline)
      [] d = "table" -> Elements(elements_of_type_table)
      [] d = "list-item" -> Elements(elements_of_type_list_item)
      [] d = "table-row-group" -> Elements(elements_of_type_table_row_group)
      [] d = "table-header-group" ->
             Elements(elements_of_type_table_header_group)
      [] d = "table-footer-group" ->
             Elements(elements_of_type_table_footer_group)
      [] d = "table-row" -> Elements(elements_of_type_table_footer_group)
      [] d = "table-cell" -> Elements(elements_of_type_table_footer_group)
      [] d = "html5-block" -> Elements(elements_of_type_html5_block)
      [] d = "html5-inline" -> Elements(elements_of_type_html5_inline)
      [] d = "html5" -> Elements(elements_of_type_html5)

\* elements_of_type(display): display is a String, whose text
\* StringValue(display).value is.
elements_of_type(display) ==
    IF display.value \in DisplayTypes
    THEN Return(ListValue(elements_of_type_dict(display.value), ","))
    ELSE Raise("Exception", display.value)

\* int(x) of a float: towards zero.
Trunc(n) ==
    IF n.num < 0 THEN -((-n.num) \div n.den) ELSE n.num \div n.den

\* int(text) of a text of decimal digits.
RECURSIVE IntOfDigits(_)
IntOfDigits(s) ==
    IF s = "" THEN 0
    ELSE 10 * IntOfDigits(SubSeq(s, 1, Len(s) - 1))
             + (Ord(SubSeq(s, Len(s), Len(s))) - 1)

\* int(getattr(x, 'value', x)), or the default should int raise ValueError:
\* x is a number, or a String whose text is decimal digits or holds none.
IntOr(x, default) ==
    IF x.t = "Number" THEN Trunc(x)
    ELSE IF x.value # "" /\ \A i \in 1..Len(x.value) :
                               CharAt(x.value, i) \in DigitChars
    THEN IntOfDigits(x.value)
    ELSE default

\* str(i) of an int.
StrOfInt(i) == IF i < 0 THEN "-" \o Digits(-i) ELSE Digits(i)

\* What enumerate_ appends for i; prefix.value of None raises.
enumerate_item(prefix, separator, i) ==
    IF prefix.value # ""
    THEN String(prefix.value \o separator \o StrOfInt(i), "")
    ELSE NumberValue(i, 1, "")

\* enumerate_ from the loop on: frm <= through, rev tells reversed from
\* the identity.  range(frm, through + 1) is never empty.
enumerate_loop(prefix, frm, through, rev, separator) ==
    IF prefix = None THEN Raise("AttributeError", "value")
    ELSE Return(ListValue(
             [k \in 1..(through - frm + 1) |->
                  enumerate_item(prefix, separator,
                                 IF rev THEN through - k + 1
                                 ELSE frm + k - 1)],
             ","))

\* enumerate_ once frm and through are ints.
enumerate_ints(prefix, frm, through, separator) ==
    IF frm > through
    THEN enumerate_loop(prefix, through, frm, TRUE, separator)
    ELSE enumerate_loop(prefix, frm, through, FALSE, separator)

\* enumerate_(prefix, frm, through, separator): prefix is None or a String,
\* separator a String.
enumerate_(prefix, frm, through, separator) ==
    enumerate_ints(prefix, IntOr(frm, 1), IntOr(through, IntOr(frm, 1)),
                   separator.value)

\* range_(frm, through): through is None when not given.
range_(frm, through) ==
    IF through = None
    THEN enumerate_(None, NumberValue(1, 1, ""), frm, String("-", ""))
    ELSE enumerate_(None, frm, through[1], String("-", ""))

----------------------------------------------------------------------------
(* The calls made on namespaces *)

VarNames == {"$a_b", "$c"}
VariantNames == {"$a_b", "$a-b"}
VarValues == {NumberValue(1, 1, ""), NumberValue(2, 1, "px")}
FunctionNames == {"rgba", "a_b", "a-b"}
SetArities == {Some(1), None}
GetArities == {Some(1), Some(3), Some(4), None}
Callables == {"cb1", "cb2"}
MixinNames == {"m_x", "m-x"}
MixinArities == {Some(1), Some(2), None}
EvalArities == {Some(1), Some(2), None}
EvalCallables == {"cb1", "__call"}

Call(op, ns, name, arity, arg, result) ==
    [op |-> op, ns |-> ns, name |-> name, arity |-> arity, arg |-> arg,
     result |-> result]

Init ==
    /\ dicts = <<CORE_LIBRARY>>
    /\ namespaces = <<>>
    /\ writes = 0
    /\ last = Call("import", 0, "", None, None, Return(None))
    /\ expression = None
    /\ ast_cache = EmptyCache
    /\ DEBUG = FALSE
    /\ evaluated = None

\* Namespace() or Namespace(functions=CORE_LIBRARY)
NewNamespace(library, max) ==
    /\ Len(namespaces) < max
    /\ LET r == Namespace_init(dicts, library)
       IN  /\ dicts' = r.heap
           /\ namespaces' = Append(namespaces, r.ns)
    /\ last' = Call("Namespace", Len(namespaces) + 1, "", None, library,
                    Return(None))
    /\ UNCHANGED <<writes, calculator>>

\* Namespace.derive_from(*others); others[1].derive() when there is one.
DeriveFrom(others, max) ==
    /\ Len(namespaces) < max
    /\ LET r == Namespace_derive_from(dicts, namespaces, others)
       IN  /\ dicts' = r.heap
           /\ namespaces' = Append(namespaces, r.ns)
    /\ last' = Call("derive_from", Len(namespaces) + 1, "", None, others,
                    Return(None))
    /\ UNCHANGED <<writes, calculator>>

SetVariable(n, name, value, max) ==
    /\ writes < max
    /\ dicts' = Namespace_set_variable(dicts, namespaces[n], name, value)
    /\ writes' = writes + 1
    /\ last' = Call("set_variable", n, name, None, value, Return(None))
    /\ UNCHANGED <<namespaces, calculator>>

GetVariable(n, name) ==
    /\ last' = Call("variable", n, name, None, None,
                    Namespace_variable(dicts, namespaces[n], name))
    /\ UNCHANGED <<dicts, namespaces, writes, calculator>>

SetFunction(n, name, arity, cb) ==
    /\ writes < MaxCallableWrites
    /\ dicts' = Namespace_set_function(dicts, namespaces[n], name, arity, cb)
    /\ writes' = writes + 1
    /\ last' = Call("set_function", n, name, arity, cb, Return(None))
    /\ UNCHANGED <<namespaces, calculator>>

GetFunction(n, name, arity) ==
    /\ last' = Call("function", n, name, arity, None,
                    Namespace_function(dicts, namespaces[n], name, arity))
    /\ UNCHANGED <<dicts, namespaces, writes, calculator>>

SetMixin(n, name, arity, cb) ==
    /\ writes < MaxCallableWrites
    /\ dicts' = Namespace_set_mixin(dicts, namespaces[n], name, arity, cb)
    /\ writes' = writes + 1
    /\ last' = Call("set_mixin", n, name, arity, cb, Return(None))
    /\ UNCHANGED <<namespaces, calculator>>

GetMixin(n, name, arity) ==
    /\ last' = Call("mixin", n, name, arity, None,
                    Namespace_mixin(dicts, namespaces[n], name, arity))
    /\ UNCHANGED <<dicts, namespaces, writes, calculator>>

\* ast.evaluate(calculator, divide) on a calculator whose namespace is n.
AstEvaluate(n, ast, divide) ==
    /\ last' = Call("evaluate", n, "", None,
                    [ast |-> ast, divide |-> divide],
                    Evaluate(n, ast, divide))
    /\ UNCHANGED <<dicts, namespaces, writes, calculator>>

NsIds == 1..Len(namespaces)

\* The argument lists of derive_from: one namespace, or two different ones.
Others ==
    {<<a>> : a \in NsIds} \cup
    {o \in {<<a, b>> : a \in NsIds, b \in NsIds} : o[1] # o[2]}

\* The calls on variables: scopes are built and derived, variables set,
\* looked up, and evaluated as the calculator does, with divide left False.
Next ==
    \/ NewNamespace(None, MaxNamespaces)
    \/ \E others \in Others : DeriveFrom(others, MaxNamespaces)
    \/ \E n \in NsIds, name \in VarNames, value \in VarValues :
           SetVariable(n, name, value, MaxWrites)
    \/ \E n \in NsIds, name \in VarNames : GetVariable(n, name)
    \/ \E n \in NsIds, name \in VarNames :
           AstEvaluate(n, Variable(name), FALSE)

Spec == Init /\ [][Next]_vars

\* The calls on functions, mixins and variables whose names differ in '-'
\* and '_' only, over namespaces built on the core library or on nothing.
NextCallables ==
    \/ \E library \in {None, Some("CORE_LIBRARY")} :
           NewNamespace(library, MaxCallableNamespaces)
    \/ \E a \in NsIds : DeriveFrom(<<a>>, MaxCallableNamespaces)
    \/ \E n \in NsIds, name \in FunctionNames, arity \in SetArities,
          cb \in Callables : SetFunction(n, name, arity, cb)
    \/ \E n \in NsIds, name \in FunctionNames, arity \in GetArities :
           GetFunction(n, name, arity)
    \/ \E n \in NsIds, name \in MixinNames, arity \in SetArities,
          cb \in Callables : SetMixin(n, name, arity, cb)
    \/ \E n \in NsIds, name \in MixinNames, arity \in MixinArities :
           GetMixin(n, name, arity)
    \/ \E n \in NsIds, name \in VariantNames, value \in VarValues :
           SetVariable(n, name, value, MaxCallableWrites)
    \/ \E n \in NsIds, name \in VariantNames : GetVariable(n, name)

SpecCallables == Init /\ [][NextCallables]_vars

\* The expressions evaluated: literals and variables, their divisions, and
\* every kind of node around one of these.
Literals == {Literal(NumberValue(12, 1, "px")), Literal(NumberValue(3, 2, ""))}
Atoms == Literals \cup {Variable("$x"), Variable("$u")}
Divisions == {BinaryOp("truediv", a, b) : a \in Atoms, b \in Atoms}
Operands == Atoms \cup Divisions
ArgVars == {None, Some("$k-1")}
CallNames == {"f-n", "foo", "url"}

Wrapped(S) ==
    {Parentheses(e) : e \in S}
    \cup {UnaryOp("neg", e) : e \in S}
    \cup {NotOp(e) : e \in S}
    \cup {BinaryOp(op, e, a) : op \in {"add", "truediv"}, e \in S,
                               a \in Literals}
    \cup {BinaryOp(op, a, e) : op \in {"add", "truediv"}, e \in S,
                               a \in Literals}
    \cup {AnyOp(<<e, a>>) : e \in S, a \in Literals}
    \cup {AllOp(<<a, e>>) : e \in S, a \in Literals}
    \cup {ListLiteral(<<e, a>>, comma) : e \in S, a \in Literals,
                                          comma \in BOOLEAN}
    \cup {CallOp(f, <<<<var, e>>>>) : f \in CallNames, var \in ArgVars,
                                      e \in S}
    \cup {CallOp(f, <<<<None, a>>, <<var, e>>>>) :
              f \in CallNames, a \in Literals, var \in ArgVars, e \in S}

LiteralDivisions == {BinaryOp("truediv", a, b) : a \in Literals, b \in Literals}

\* Nodes two levels above a division of literals.
Nested ==
    LET inner == {ListLiteral(<<d>>, FALSE) : d \in LiteralDivisions}
                 \cup {Parentheses(d) : d \in LiteralDivisions}
    IN  {Parentheses(e) : e \in inner}
        \cup {UnaryOp("neg", e) : e \in inner}
        \cup {NotOp(e) : e \in inner}
        \cup {ListLiteral(<<e, e>>, TRUE) : e \in inner}
        \cup {CallOp(f, <<<<None, e>>>>) : f \in CallNames, e \in inner}

\* Divisions with a parenthesised literal or a call for an operand.
ComputedOperands ==
    {Parentheses(a) : a \in Literals} \cup {CallOp(f, <<>>) : f \in CallNames}

ComputedDivisions ==
    {BinaryOp("truediv", e, a) : e \in ComputedOperands, a \in Literals}
    \cup {BinaryOp("truediv", a, e) : e \in ComputedOperands, a \in Literals}

\* Logical nodes over the boolean literals, calls of f-n and an undefined
\* variable.
Booleans == {Literal(BooleanValue(TRUE)), Literal(BooleanValue(FALSE))}
Effects ==
    {CallOp("f-n", <<>>),
     CallOp("f-n", <<<<None, Literal(NumberValue(12, 1, "px"))>>>>),
     Variable("$u")}

Logicals ==
    {AnyOp(<<b, c>>) : b \in Booleans, c \in Effects}
    \cup {AnyOp(<<c, b>>) : b \in Booleans, c \in Effects}
    \cup {AllOp(<<b, c>>) : b \in Booleans, c \in Effects}
    \cup {AllOp(<<c, b>>) : b \in Booleans, c \in Effects}
    \cup {AnyOp(<<c, d>>) : c \in Effects, d \in Effects}
    \cup {AllOp(<<c, d>>) : c \in Effects, d \in Effects}
    \cup {NotOp(c) : c \in Booleans \cup Effects}

Expressions ==
    Operands \cup Wrapped(Operands) \cup Nested \cup ComputedDivisions
    \cup {CallOp(f, <<>>) : f \in CallNames}
    \cup Logicals

\* An expression, parsed once, is evaluated over a namespace in which $x and
\* the function f-n may come to be bound.
InitEval ==
    /\ dicts = <<CORE_LIBRARY>>
    /\ namespaces = <<>>
    /\ writes = 0
    /\ last = Call("import", 0, "", None, None, Return(None))
    /\ expression \in Expressions
    /\ ast_cache = EmptyCache
    /\ DEBUG = FALSE
    /\ evaluated = None

NextEval ==
    \/ NewNamespace(None, MaxEvalNamespaces)
    \/ \E n \in NsIds, value \in VarValues :
           SetVariable(n, "$x", value, MaxCallableWrites)
    \/ \E n \in NsIds, arity \in EvalArities, cb \in EvalCallables :
           SetFunction(n, "f_n", arity, cb)
    \/ \E n \in NsIds, divide \in BOOLEAN :
           AstEvaluate(n, expression, divide)

SpecEval == InitEval /\ [][NextEval]_vars

\* What a Calculator method returned or raised, without the cache.
Outcome(r) == IF r.exc = "" THEN Return(r.value) ELSE Raise(r.exc, r.key)

\* What a call on the calculator found: whether the text was in ast_cache,
\* and what the evaluate_expression call before it gave.
Found(expr) == [cached |-> expr \in DOMAIN ast_cache, previous |-> evaluated]

\* Calculator(namespace).parse_expression(expr)
ParseExpression(expr) ==
    LET r == Calculator_parse_expression(expr, ast_cache)
    IN  /\ ast_cache' = r.cache
        /\ last' = Call("parse_expression", 0, expr, None, Found(expr),
                        Outcome(r))
        /\ UNCHANGED <<dicts, namespaces, writes, expression, DEBUG, evaluated>>

\* Calculator(namespaces[n]).evaluate_expression(expr)
EvaluateExpression(n, expr) ==
    LET r == Calculator_evaluate_expression(n, expr, ast_cache, DEBUG)
    IN  /\ ast_cache' = r.cache
        /\ evaluated' = Some(Outcome(r))
        /\ last' = Call("evaluate_expression", n, expr, None, Found(expr),
                        Outcome(r))
        /\ UNCHANGED <<dicts, namespaces, writes, expression, DEBUG>>

\* Calculator(namespaces[n]).calculate(expr)
Calculate(n, expr) ==
    LET r == Calculator_calculate(n, expr, ast_cache, DEBUG)
    IN  /\ ast_cache' = r.cache
        /\ last' = Call("calculate", n, expr, None, Found(expr), Outcome(r))
        /\ UNCHANGED <<dicts, namespaces, writes, expression, DEBUG, evaluated>>

\* The texts handed to the calculator: expressions of $x, texts that do not
\* parse, with and without a variable, and texts with #{...} spans.
CalcTexts ==
    {"$x + 1", "2 / $x", "1 + 2", "$x", "1 +", "$x +",
     "#{\"1 + 2\"}", "a #{$x} b", "w #{1 +}"}
CalcValues == {NumberValue(0, 1, ""), NumberValue(2, 1, "")}

\* One text is parsed, evaluated and calculated, in either mode, over a
\* namespace in which $x may come to be bound and bound again.
InitCalc ==
    /\ dicts = <<CORE_LIBRARY>>
    /\ namespaces = <<>>
    /\ writes = 0
    /\ last = Call("import", 0, "", None, None, Return(None))
    /\ expression \in CalcTexts
    /\ ast_cache = EmptyCache
    /\ DEBUG \in BOOLEAN
    /\ evaluated = None

NextCalc ==
    \/ NewNamespace(None, MaxEvalNamespaces)
    \/ \E n \in NsIds, value \in CalcValues :
           SetVariable(n, "$x", value, MaxCallableWrites)
    \/ ParseExpression(expression)
    \/ \E n \in NsIds : EvaluateExpression(n, expression)
    \/ \E n \in NsIds : Calculate(n, expression)

SpecCalc == InitCalc /\ [][NextCalc]_vars

\* The operands the operators of the parsed texts are put between: a
\* number, a variable and a bareword.
OperandTexts == {"2", "$x", "k"}

\* One text for each choice of operands, for each shape of expression whose
\* nesting shows how the operators bind.
PrecedenceTexts ==
    {a \o " or " \o b \o " and " \o c : a, b, c \in OperandTexts}
        \cup {"not " \o a \o " == " \o b : a, b \in OperandTexts}
        \cup {a \o " == " \o b \o " + " \o c \o " * 2" :
                  a, b, c \in OperandTexts}
        \cup {a \o " < " \o b \o " < " \o c : a, b, c \in OperandTexts}
        \cup {a \o " - " \o b \o " - " \o c : a, b, c \in OperandTexts}

\* A minus sign with and without blanks around it, and before a name.
MinusTexts == {"1-2", "1 - 2", "1 -2", "1- 2", "-moz", "-2", "- 2", "k-2"}

\* Barewords: color names, the keywords of parse_bareword, and the same
\* words in other cases.
BarewordTexts ==
    {"red", "blue", "Red", "RED", "null", "undefined", "NULL", "Null",
     "Undefined", "true", "True", "TRUE", "false", "False", "FALSE",
     "moz", "a_b", "nulls"}

\* Lists: items side by side, items with commas between them, both, and
\* one item alone.
ListTexts ==
    {"k", "2", "$x", "k 2", "k 2 $x", "k, 2", "k, 2, $x", "k 2, $x k",
     "k, 2 $x", "k 2, $x", "1 + 2 k", "(k)", "(k 2)", "(k, 2)"}

\* Calls whose arguments start with a variable: one followed by a colon,
\* and ones followed by the end of the argument, an operator, another item
\* or a comma.
ArgTexts ==
    {"f($x: 1)", "f($x)", "f($x + 1)", "f($x 2)", "f($x, 2)", "f($x :1)",
     "f($x: $x)", "f(2, $x: 1)", "f($x, $k-1: 2)", "f($x: 1 2)",
     "f($x == 2)", "f(2)", "f()"}

ParseTexts ==
    PrecedenceTexts \cup MinusTexts \cup BarewordTexts \cup ListTexts
        \cup ArgTexts

\* One text is parsed, and parsed again, in a process whose cache is empty.
InitParse ==
    /\ dicts = <<CORE_LIBRARY>>
    /\ namespaces = <<>>
    /\ writes = 0
    /\ last = Call("import", 0, "", None, None, Return(None))
    /\ expression \in ParseTexts
    /\ ast_cache = EmptyCache
    /\ DEBUG = FALSE
    /\ evaluated = None

NextParse == ParseExpression(expression)

SpecParse == InitParse /\ [][NextParse]_vars

\* The colors and amounts the color builtins are tried on: channels in and
\* out of range, percentages, a length and a string.
Colors ==
    {ColorObject(<<Whole(51), Whole(102), Whole(153), Whole(1)>>, "rgb"),
     ColorObject(<<Whole(204), Whole(51), Whole(51), Float(1, 2)>>, "rgba"),
     ColorObject(<<Whole(102), Whole(102), Whole(102), Whole(1)>>, "rgb"),
     ColorObject(<<Whole(0), Whole(0), Whole(0), Whole(0)>>, "rgba")}

ChannelArgs ==
    {NumberValue(300, 1, ""), NumberValue(-5, 1, ""), NumberValue(128, 1, ""),
     NumberValue(1, 2, ""), NumberValue(50, 1, "%"), NumberValue(150, 1, "%"),
     NumberValue(10, 1, "px"), String("red", "")}

GreenArgs == {NumberValue(128, 1, ""), NumberValue(10, 1, "px")}
BlueArgs == {NumberValue(-5, 1, ""), String("red", "")}

AlphaAmounts ==
    {NumberValue(1, 10, ""), NumberValue(2, 1, ""), NumberValue(-1, 1, ""),
     NumberValue(50, 1, "%")}

HslAmounts ==
    {NumberValue(20, 1, "%"), NumberValue(1, 10, ""), NumberValue(10, 1, "px"),
     String("red", "")}

Degrees == {NumberValue(90, 1, ""), NumberValue(-60, 1, "deg")}

OptionalPercent == {None, Some(NumberValue(10, 1, "%"))}
OptionalChannel == {None, Some(NumberValue(20, 1, ""))}
OptionalAlpha == {None, Some(NumberValue(1, 10, ""))}

\* A builtin is called: before the call the objects are heap, and made is
\* what the call gave.  writes counts these calls too.
Builtin(name, heap, args, made) ==
    /\ writes < MaxBuiltinCalls
    /\ writes' = writes + 1
    /\ last' = Call("builtin", 0, name, Some(Len(args)),
                    [heap |-> heap, args |-> args], made)
    /\ UNCHANGED <<dicts, namespaces, calculator>>

\* The color a builtin is called on is the one object there is before the
\* call.
Rgba(r, g, b, a) ==
    Builtin("rgba", <<>>, <<r, g, b, a>>, rgba(<<>>, r, g, b, a, "rgba"))
Rgb(r, g, b) == Builtin("rgb", <<>>, <<r, g, b>>, rgb(<<>>, r, g, b))
Opacify(color, amount) ==
    Builtin("opacify", <<color>>, <<1, amount>>,
            opacify(<<color>>, 1, amount))
Transparentize(color, amount) ==
    Builtin("transparentize", <<color>>, <<1, amount>>,
            transparentize(<<color>>, 1, amount))
Lighten(color, amount) ==
    Builtin("lighten", <<color>>, <<1, amount>>,
            lighten(<<color>>, 1, amount))
Darken(color, amount) ==
    Builtin("darken", <<color>>, <<1, amount>>,
            darken(<<color>>, 1, amount))
Saturate(color, amount) ==
    Builtin("saturate", <<color>>, <<1, amount>>,
            saturate(<<color>>, 1, amount))
Desaturate(color, amount) ==
    Builtin("desaturate", <<color>>, <<1, amount>>,
            desaturate(<<color>>, 1, amount))
AdjustHue(color, degrees) ==
    Builtin("adjust-hue", <<color>>, <<1, degrees>>,
            adjust_hue(<<color>>, 1, degrees))
Invert(color) ==
    Builtin("invert", <<color>>, <<1>>, invert(<<color>>, 1))
AdjustColor(color, s, l, r, g, b, a) ==
    Builtin("adjust-color", <<color>>, <<1, s, l, r, g, b, a>>,
            adjust_color(<<color>>, 1, s, l, r, g, b, a))
ScaleColor(color, s, l, r, g, b, a) ==
    Builtin("scale-color", <<color>>, <<1, s, l, r, g, b, a>>,
            scale_color(<<color>>, 1, s, l, r, g, b, a))
ChangeColor(color, s, l, r, g, b, a) ==
    Builtin("change-color", <<color>>, <<1, s, l, r, g, b, a>>,
            change_color(<<color>>, 1, s, l, r, g, b, a))

InitColor ==
    /\ dicts = <<CORE_LIBRARY>>
    /\ namespaces = <<>>
    /\ writes = 0
    /\ last = Call("import", 0, "", None, None, Return(None))
    /\ expression = None
    /\ ast_cache = EmptyCache
    /\ DEBUG = FALSE
    /\ evaluated = None

NextColor ==
    \/ \E r \in ChannelArgs, g \in GreenArgs, b \in BlueArgs,
          a \in ChannelArgs : Rgba(r, g, b, a)
    \/ \E r \in ChannelArgs, g \in GreenArgs, b \in BlueArgs : Rgb(r, g, b)
    \/ \E color \in Colors, amount \in AlphaAmounts : Opacify(color, amount)
    \/ \E color \in Colors, amount \in AlphaAmounts : Transparentize(color, amount)
    \/ \E color \in Colors, amount \in HslAmounts : Lighten(color, amount)
    \/ \E color \in Colors, amount \in HslAmounts : Darken(color, amount)
    \/ \E color \in Colors, amount \in HslAmounts : Saturate(color, amount)
    \/ \E color \in Colors, amount \in HslAmounts : Desaturate(color, amount)
    \/ \E color \in Colors, degrees \in Degrees : AdjustHue(color, degrees)
    \/ \E color \in Colors : Invert(color)
    \/ \E color \in Colors, s \in OptionalPercent, l \in OptionalPercent,
          r \in OptionalChannel, g \in OptionalChannel, b \in OptionalChannel,
          a \in OptionalAlpha :
           \/ AdjustColor(color, s, l, r, g, b, a)
           \/ ScaleColor(color, s, l, r, g, b, a)
           \/ ChangeColor(color, s, l, r, g, b, a)

SpecColor == InitColor /\ [][NextColor]_vars

\* The prefixes, bounds, separators and display types the helpers are tried
\* on.
Prefixes == {String("", ""), String("col", "")}
Counts ==
    {NumberValue(-2, 1, ""), NumberValue(0, 1, ""), NumberValue(1, 1, ""),
     NumberValue(3, 1, ""), NumberValue(5, 2, ""), NumberValue(2, 1, "px"),
     String("a", ""), String("12", "")}
Separators == {String("-", ""), String("_", "")}
Displays == DisplayTypes \cup {"flex", "none", ""}

ElementsOfType(display) ==
    Builtin("elements-of-type", <<>>, <<display>>, elements_of_type(display))
Enumerate(prefix, frm, through, separator) ==
    Builtin("enumerate", <<>>, <<prefix, frm, through, separator>>,
            enumerate_(prefix, frm, through, separator))
Range(frm, through) ==
    Builtin("range", <<>>, <<frm, through>>, range_(frm, through))

InitHelpers ==
    /\ dicts = <<CORE_LIBRARY>>
    /\ namespaces = <<>>
    /\ writes = 0
    /\ last = Call("import", 0, "", None, None, Return(None))
    /\ expression = None
    /\ ast_cache = EmptyCache
    /\ DEBUG = FALSE
    /\ evaluated = None

NextHelpers ==
    \/ \E d \in Displays : ElementsOfType(String(d, ""))
    \/ \E prefix \in Prefixes, frm \in Counts, through \in Counts,
          separator \in Separators :
           Enumerate(prefix, frm, through, separator)
    \/ \E frm \in Counts, through \in {None} \cup {Some(c) : c \in Counts} :
           Range(frm, through)

SpecHelpers == InitHelpers /\ [][NextHelpers]_vars

----------------------------------------------------------------------------
(* What the claims speak of *)

Least(S) == CHOOSE i \in S : \A j \in S : i <= j

\* The positions of the links of maps that are dicts holding key.
Holders(heap, maps, key) ==
    {i \in 1..Len(maps) :
         maps[i].kind = "dict" /\ key \in DOMAIN heap[maps[i].ref]}

\* The dict object a scope's own (innermost) link refers to.
OwnDict(n) == namespaces[n].variables[1].ref

\* c was made by p.derive().
DerivedFrom(c, p) == namespaces[c].parents = <<p>>

\* The other scopes made by p.derive().
Siblings(c, p) == {s \in NsIds \ {c} : DerivedFrom(s, p)}

\* The name with its '-' written as '_' (the other way round than
\* normalize_var): two names agree on it exactly when they differ only in
\* '-' and '_'.
Underscored(name) == replace(name, "-", "_")

----------------------------------------------------------------------------
(* C1 *)

\* C1: set_variable(name, value) writes the value into the first link of
\* the chain (innermost first) that already holds the name, or, when no link
\* holds it, into the innermost link; in either case that dict changes at
\* that key only and no other dict changes.
C1_SetVariableWritesFirstHolder ==
    [][last'.op = "set_variable" =>
        LET maps == namespaces[last'.ns].variables
            key == normalize_var(last'.name)
            held == Holders(dicts, maps, key)
            d == IF held = {} THEN maps[1].ref ELSE maps[Least(held)].ref
        IN  /\ DOMAIN dicts'[d] = DOMAIN dicts[d] \cup {key}
            /\ dicts'[d][key] = last'.arg
            /\ \A k \in DOMAIN dicts[d] \ {key} : dicts'[d][k] = dicts[d][k]
            /\ Len(dicts') = Len(dicts)
            /\ \A e \in 1..Len(dicts) : e # d => dicts'[e] = dicts[e]
    ]_vars

\* A write through a derived scope landed in an outer link that held the
\* name, the scope's own link holding nothing under it.
C1_Witness ==
    /\ last.op = "set_variable"
    /\ LET maps == namespaces[last.ns].variables
           key == normalize_var(last.name)
       IN  /\ key \notin DOMAIN dicts[maps[1].ref]
           /\ \E i \in 2..Len(maps) :
                  /\ KeyIn(dicts, maps[i], key)
                  /\ dicts[maps[i].ref][key] = last.arg

----------------------------------------------------------------------------
(* C2 *)

\* The step is c.set_variable(x, v) for a scope c made by p.derive() at a
\* moment when p bound x.
C2_Case(c, p) ==
    /\ last'.op = "set_variable"
    /\ last'.ns = c
    /\ DerivedFrom(c, p)
    /\ normalize_var(last'.name) \in namespaces[c].inherited

\* variable(x) on scope n gives v in the state after the step.
C2_Reads(n, x, v) ==
    LET r == Namespace_variable(dicts', namespaces[n], x)
    IN  r.exc = "" /\ r.value = v

\* C2 as stated: after the write, the parent and every other scope derived
\* from the parent read v, and the child holds no binding of its own.
C2_EveryDerivedScopeReads ==
    [][\A c \in NsIds, p \in NsIds : C2_Case(c, p) =>
        /\ C2_Reads(p, last'.name, last'.arg)
        /\ \A s \in Siblings(c, p) : C2_Reads(s, last'.name, last'.arg)
        /\ normalize_var(last'.name) \notin DOMAIN dicts'[OwnDict(c)]
    ]_vars

\* C2 (amended): after the write, the parent reads v, every other scope
\* derived from the parent that holds no binding of the name in its own link
\* reads v, and the child holds no binding of its own.
C2_UnshadowedDerivedScopesRead ==
    [][\A c \in NsIds, p \in NsIds : C2_Case(c, p) =>
        /\ C2_Reads(p, last'.name, last'.arg)
        /\ \A s \in Siblings(c, p) :
               normalize_var(last'.name) \notin DOMAIN dicts'[OwnDict(s)]
                   => C2_Reads(s, last'.name, last'.arg)
        /\ normalize_var(last'.name) \notin DOMAIN dicts'[OwnDict(c)]
    ]_vars

\* A child wrote a name its parent bound when it was derived; the parent and
\* a sibling without a binding of its own now read the value written.
C2_Witness ==
    /\ last.op = "set_variable"
    /\ \E p \in NsIds : \E s \in Siblings(last.ns, p) :
           LET key == normalize_var(last.name)
               rp == Namespace_variable(dicts, namespaces[p], last.name)
               rs == Namespace_variable(dicts, namespaces[s], last.name)
           IN  /\ DerivedFrom(last.ns, p)
               /\ key \in namespaces[last.ns].inherited
               /\ key \notin DOMAIN dicts[OwnDict(last.ns)]
               /\ key \notin DOMAIN dicts[OwnDict(s)]
               /\ rp.exc = "" /\ rp.value = last.arg
               /\ rs.exc = "" /\ rs.value = last.arg

----------------------------------------------------------------------------
(* C3 *)

\* The step is c.set_variable(y, v) for a scope c made by p.derive() while
\* no ancestor of c binds y: a lookup of y on p fails.
C3_Case(c, p) ==
    /\ last'.op = "set_variable"
    /\ last'.ns = c
    /\ DerivedFrom(c, p)
    /\ Namespace_variable(dicts, namespaces[p], last'.name).exc = "KeyError"

\* variable(y) on scope n fails as undefined in the state after the step.
C3_Undefined(n, y) ==
    Namespace_variable(dicts', namespaces[n], y).exc = "KeyError"

\* Every dict of the parent's chain is as it was before the step.
C3_ParentUnchanged(p) ==
    \A i \in 1..Len(namespaces[p].variables) :
        LET link == namespaces[p].variables[i]
        IN  link.kind = "dict" => dicts'[link.ref] = dicts[link.ref]

\* C3 as stated: after the write the name is undefined on the parent and on
\* every sibling derived from the same parent, and the parent's bindings are
\* unchanged.
C3_UndefinedOnEverySibling ==
    [][\A c \in NsIds, p \in NsIds : C3_Case(c, p) =>
        /\ C3_Undefined(p, last'.name)
        /\ \A s \in Siblings(c, p) : C3_Undefined(s, last'.name)
        /\ C3_ParentUnchanged(p)
    ]_vars

\* C3 (amended): after the write the name is undefined on the parent and on
\* every sibling derived from the same parent that has not bound the name in
\* its own link; every sibling reads what it read before, and the parent's
\* bindings are unchanged.
C3_NewNameIsScopeLocal ==
    [][\A c \in NsIds, p \in NsIds : C3_Case(c, p) =>
        /\ C3_Undefined(p, last'.name)
        /\ \A s \in Siblings(c, p) :
               /\ normalize_var(last'.name) \notin DOMAIN dicts[OwnDict(s)]
                      => C3_Undefined(s, last'.name)
               /\ Namespace_variable(dicts', namespaces[s], last'.name)
                      = Namespace_variable(dicts, namespaces[s], last'.name)
        /\ C3_ParentUnchanged(p)
    ]_vars

\* A child holds a name that its parent, which binds another name, and a
\* sibling do not see.
C3_Witness ==
    /\ last.op = "set_variable"
    /\ \E p \in NsIds : \E s \in Siblings(last.ns, p) :
           LET key == normalize_var(last.name)
           IN  /\ DerivedFrom(last.ns, p)
               /\ key \in DOMAIN dicts[OwnDict(last.ns)]
               /\ dicts[OwnDict(last.ns)][key] = last.arg
               /\ DOMAIN dicts[OwnDict(p)] # {}
               /\ Namespace_variable(dicts, namespaces[p], last.name).exc
                      = "KeyError"
               /\ Namespace_variable(dicts, namespaces[s], last.name).exc
                      = "KeyError"

----------------------------------------------------------------------------
(* C4 *)

\* The first of the parents, in the order given, through which a lookup of
\* name succeeds; 0 when it succeeds through none.
C4_FirstBinder(parents, name) ==
    LET binds == {i \in 1..Len(parents) :
                      Namespace_variable(dicts, namespaces[parents[i]],
                                         name).exc = ""}
    IN  IF binds = {} THEN 0 ELSE Least(binds)

\* C4: a variable bound in any parent of a scope made by derive_from with
\* two or more parents is found by a lookup through that scope, which gives
\* the value of the earliest parent binding the name (the scope's own link
\* holding no binding of it).
C4_MergedLookupFindsParents ==
    (/\ last.op = "variable"
     /\ Len(namespaces[last.ns].parents) >= 2
     /\ normalize_var(last.name) \notin DOMAIN dicts[OwnDict(last.ns)]
     /\ C4_FirstBinder(namespaces[last.ns].parents, last.name) # 0)
    => LET ps == namespaces[last.ns].parents
           first == ps[C4_FirstBinder(ps, last.name)]
       IN  last.result
               = Namespace_variable(dicts, namespaces[first], last.name)

----------------------------------------------------------------------------
(* C5 *)

\* What the claim has a lookup of name through scope n give: the value in
\* the innermost link of the chain holding the name, a KeyError when no link
\* holds it.
C5_Expected(n, name) ==
    LET maps == namespaces[n].variables
        key == normalize_var(name)
        holders == Holders(dicts, maps, key)
    IN  IF holders = {}
        THEN [exc |-> "KeyError"]
        ELSE [exc |-> "", value |-> dicts[maps[Least(holders)].ref][key]]

\* C5: variable(name) returns the value of the innermost link of the chain
\* that holds the name and raises KeyError when no link holds it; evaluating
\* a Variable node gives that value, and raises that KeyError instead of
\* returning a value when no link holds the name.
C5_LookupInnermostOrFail ==
    /\ last.op = "variable" =>
           LET e == C5_Expected(last.ns, last.name)
           IN  /\ last.result.exc = e.exc
               /\ e.exc = "" => last.result.value = e.value
    /\ (last.op = "evaluate" /\ last.arg.ast.node = "Variable") =>
           LET e == C5_Expected(last.ns, last.arg.ast.name)
           IN  /\ last.result.exc = e.exc
               /\ e.exc = "" => last.result.value = e.value

\* A Variable node was evaluated over a derived scope whose chain does not
\* hold its name, though it holds another: the evaluation raised KeyError.
C5_Witness ==
    /\ last.op = "evaluate"
    /\ last.arg.ast = Variable("$a_b")
    /\ Len(namespaces[last.ns].parents) = 1
    /\ Holders(dicts, namespaces[last.ns].variables, "$a-b") = {}
    /\ Holders(dicts, namespaces[last.ns].variables, "$c") # {}
    /\ last.result.exc = "KeyError"

----------------------------------------------------------------------------
(* C6 *)

\* The chain function(...) or mixin(...) reads on namespace n.
C6_Chain(op, n) ==
    IF op = "function" THEN namespaces[n].functions ELSE namespaces[n].mixins

\* C6: function(name, arity) and mixin(name, arity) return the callable
\* under the exact key (name, arity) when a link of the chain holds it (the
\* innermost such link), otherwise the callable under the wildcard key
\* (name, None), and fail with KeyError when the chain holds neither.
C6_ExactThenWildcard ==
    last.op \in {"function", "mixin"} =>
        LET maps == C6_Chain(last.op, last.ns)
            exact == <<normalize_var(last.name), last.arity>>
            wild == <<normalize_var(last.name), None>>
            hasExact == Holders(dicts, maps, exact)
            hasWild == Holders(dicts, maps, wild)
        IN  IF hasExact # {}
            THEN /\ last.result.exc = ""
                 /\ last.result.value
                        = dicts[maps[Least(hasExact)].ref][exact]
            ELSE IF hasWild # {}
            THEN /\ last.result.exc = ""
                 /\ last.result.value = dicts[maps[Least(hasWild)].ref][wild]
            ELSE last.result.exc = "KeyError"

\* rgba is registered at arities 1, 2 and 4 in an outer link and as a
\* wildcard; a call with three arguments got the wildcard's callable.
C6_Witness ==
    /\ last.op = "function"
    /\ last.name = "rgba"
    /\ last.arity = Some(3)
    /\ LET maps == namespaces[last.ns].functions
       IN  /\ \A a \in {1, 2, 4} :
                  Holders(dicts, maps, <<"rgba", Some(a)>>) # {}
           /\ Holders(dicts, maps, <<"rgba", Some(3)>>) = {}
           /\ Holders(dicts, maps, <<"rgba", None>>) # {}
    /\ last.result.exc = ""
    /\ last.result.value \in Callables

----------------------------------------------------------------------------
(* C7 *)

\* The names of the model that differ from name in '-' and '_' only.
C7_Variants(name) ==
    {n \in VariantNames \cup FunctionNames \cup MixinNames :
         Underscored(n) = Underscored(name)}

\* The lookup that ran last, made under another name.
C7_Lookup(op, n, name, arity) ==
    CASE op = "variable" -> Namespace_variable(dicts, namespaces[n], name)
      [] op = "function" ->
             Namespace_function(dicts, namespaces[n], name, arity)
      [] op = "mixin" -> Namespace_mixin(dicts, namespaces[n], name, arity)

\* The name part of a key: a variable's key is its name, a callable's key
\* is the pair of its name and arity.
C7_KeyName(op, key) == IF op = "variable" THEN key ELSE key[1]
C7_KeyArity(op, key) == IF op = "variable" THEN None ELSE key[2]

\* No dict of the chain holds two keys that differ in '-' and '_' only.
C7_OneBinding(op, maps) ==
    \A i \in 1..Len(maps) : maps[i].kind = "dict" =>
        \A k1 \in DOMAIN dicts[maps[i].ref], k2 \in DOMAIN dicts[maps[i].ref] :
            (/\ Underscored(C7_KeyName(op, k1)) = Underscored(C7_KeyName(op, k2))
             /\ C7_KeyArity(op, k1) = C7_KeyArity(op, k2))
            => k1 = k2

\* The chain that a lookup or a store reads and writes on namespace n.
C7_ChainOf(op, n) ==
    CASE op \in {"variable", "set_variable"} -> namespaces[n].variables
      [] op \in {"function", "set_function"} -> namespaces[n].functions
      [] op \in {"mixin", "set_mixin"} -> namespaces[n].mixins

C7_LookupOf(op) ==
    CASE op \in {"variable", "set_variable"} -> "variable"
      [] op \in {"function", "set_function"} -> "function"
      [] op \in {"mixin", "set_mixin"} -> "mixin"

\* C7: a lookup of a variable, function or mixin gives the same under every
\* name differing from the one used in '-' and '_' only (where the binding
\* was stored under one of them, each finds it); and after a store no dict
\* of the chain holds two bindings whose names differ that way, the store
\* being read back under every such name.
C7_HyphenUnderscoreInterchangeable ==
    /\ last.op \in {"variable", "function", "mixin"} =>
           \A other \in C7_Variants(last.name) :
               C7_Lookup(last.op, last.ns, other, last.arity) = last.result
    /\ last.op \in {"set_variable", "set_function", "set_mixin"} =>
           /\ C7_OneBinding(C7_LookupOf(last.op), C7_ChainOf(last.op, last.ns))
           /\ \A other \in C7_Variants(last.name) :
                  LET r == C7_Lookup(C7_LookupOf(last.op), last.ns, other,
                                     last.arity)
                  IN  r.exc = "" /\ r.value = last.arg

\* A function stored under a name with '_' was stored again under the name
\* with '-': the dict holds the one binding, with the value stored last.
C7_Witness ==
    /\ last.op = "set_function"
    /\ last.name = "a-b"
    /\ writes = 2
    /\ LET d == dicts[namespaces[last.ns].functions[1].ref]
       IN  /\ DOMAIN d = {<<"a-b", last.arity>>}
           /\ d[<<"a-b", last.arity>>] = last.arg
           /\ Namespace_function(dicts, namespaces[last.ns], "a_b",
                                 last.arity).value = last.arg

----------------------------------------------------------------------------
(* C8 *)

\* The call evaluated last resolves to no registered function.
C8_Case ==
    /\ last.op = "evaluate"
    /\ last.arg.ast.node = "CallOp"
    /\ Namespace_function(dicts, namespaces[last.ns], last.arg.ast.func_name,
                          Some(Len(last.arg.ast.argspec))).exc = "KeyError"

\* The evaluation of the call's argument expressions, in argument order.
C8_Args ==
    LET argspec == last.arg.ast.argspec
    IN  EvaluateEach(last.ns, [i \in 1..Len(argspec) |-> argspec[i][2]], TRUE)

\* The text of argument i: its rendered value, after "$key: " when named.
C8_ArgText(i) ==
    LET pair == last.arg.ast.argspec[i]
    IN  (IF pair[1] = None THEN "" ELSE pair[1][1] \o ": ")
            \o Render(C8_Args.values[i])

\* name(arg, arg, $key: value)
C8_Text ==
    LET k == Len(last.arg.ast.argspec)
    IN  last.arg.ast.func_name \o "("
            \o (CASE k = 0 -> ""
                  [] k = 1 -> C8_ArgText(1)
                  [] k = 2 -> C8_ArgText(1) \o ", " \o C8_ArgText(2))
            \o ")"

----------------------------------------------------------------------------
(* C9 *)

\* The node evaluated last is a division.
C9_Case ==
    /\ last.op = "evaluate"
    /\ last.arg.ast.node = "BinaryOp"
    /\ last.arg.ast.op = "truediv"

\* The evaluation of the division's operands, left then right.
C9_Operands ==
    EvaluateEach(last.ns, <<last.arg.ast.left, last.arg.ast.right>>, TRUE)

\* C9: a division of two Literal nodes evaluated with divide false gives the
\* unquoted String '<left rendered> / <right rendered>'; a division with an
\* operand that is not a Literal node gives, under either flag, what the
\* division operator gives of the operands' values (its quotient or its
\* error) once the operands have evaluated.
C9_SlashOnlyBetweenLiterals ==
    C9_Case =>
        LET left == last.arg.ast.left
            right == last.arg.ast.right
        IN  /\ (left.node = "Literal" /\ right.node = "Literal"
                    /\ ~last.arg.divide) =>
                   /\ last.result.exc = ""
                   /\ last.result.value
                          = String(Render(left.value) \o " / "
                                       \o Render(right.value), "")
            /\ ((left.node # "Literal" \/ right.node # "Literal")
                    /\ C9_Operands.exc = "") =>
                   LET q == ApplyBinary("truediv", C9_Operands.values[1],
                                        C9_Operands.values[2])
                   IN  /\ last.result.exc = q.exc
                       /\ q.exc = "" => last.result.value = q.value

\* 12px/1.5 was evaluated with divide false and gave the text "12px / 1.5".
C9_Witness ==
    /\ C9_Case
    /\ ~last.arg.divide
    /\ last.arg.ast = BinaryOp("truediv", Literal(NumberValue(12, 1, "px")),
                               Literal(NumberValue(3, 2, "")))
    /\ last.result.exc = ""
    /\ last.result.value = String("12px / 1.5", "")

----------------------------------------------------------------------------
(* C10 *)

\* ast with every division of two Literal nodes that the claim has forced
\* replaced by the parenthesised literal of its quotient (left as it is when
\* the quotient is an error).  forced is whether the node is enclosed in
\* parentheses or descends from a unary, binary, logical or call-argument
\* node; a list hands on what it received.
RECURSIVE C10_Forced(_, _)
C10_Forced(ast, forced) ==
    CASE ast.node \in {"Literal", "Variable"} -> ast
      [] ast.node = "Parentheses" ->
             Parentheses(C10_Forced(ast.contents, TRUE))
      [] ast.node = "UnaryOp" ->
             UnaryOp(ast.op, C10_Forced(ast.operand, TRUE))
      [] ast.node = "NotOp" -> NotOp(C10_Forced(ast.operand, TRUE))
      [] ast.node = "AnyOp" ->
             AnyOp([i \in 1..Len(ast.operands) |->
                        C10_Forced(ast.operands[i], TRUE)])
      [] ast.node = "AllOp" ->
             AllOp([i \in 1..Len(ast.operands) |->
                        C10_Forced(ast.operands[i], TRUE)])
      [] ast.node = "CallOp" ->
             CallOp(ast.func_name,
                    [i \in 1..Len(ast.argspec) |->
                         <<ast.argspec[i][1],
                           C10_Forced(ast.argspec[i][2], TRUE)>>])
      [] ast.node = "ListLiteral" ->
             ListLiteral([i \in 1..Len(ast.items) |->
                              C10_Forced(ast.items[i], forced)],
                         ast.comma)
      [] ast.node = "BinaryOp" ->
             IF /\ ast.op = "truediv"
                /\ ast.left.node = "Literal"
                /\ ast.right.node = "Literal"
             THEN LET q == ApplyBinary("truediv", ast.left.value,
                                       ast.right.value)
                  IN  IF forced /\ q.exc = ""
                      THEN Parentheses(Literal(q.value))
                      ELSE ast
             ELSE BinaryOp(ast.op, C10_Forced(ast.left, TRUE),
                           C10_Forced(ast.right, TRUE))

\* The divisions of two Literal nodes at or below ast that the claim has
\* forced.
RECURSIVE C10_ForcedDivisions(_, _)
C10_ForcedDivisions(ast, forced) ==
    CASE ast.node \in {"Literal", "Variable"} -> {}
      [] ast.node = "Parentheses" -> C10_ForcedDivisions(ast.contents, TRUE)
      [] ast.node \in {"UnaryOp", "NotOp"} ->
             C10_ForcedDivisions(ast.operand, TRUE)
      [] ast.node \in {"AnyOp", "AllOp"} ->
             UNION {C10_ForcedDivisions(ast.operands[i], TRUE) :
                        i \in 1..Len(ast.operands)}
      [] ast.node = "CallOp" ->
             UNION {C10_ForcedDivisions(ast.argspec[i][2], TRUE) :
                        i \in 1..Len(ast.argspec)}
      [] ast.node = "ListLiteral" ->
             UNION {C10_ForcedDivisions(ast.items[i], forced) :
                        i \in 1..Len(ast.items)}
      [] ast.node = "BinaryOp" ->
             IF /\ ast.op = "truediv"
                /\ ast.left.node = "Literal"
                /\ ast.right.node = "Literal"
             THEN (IF forced THEN {ast} ELSE {})
             ELSE C10_ForcedDivisions(ast.left, TRUE)
                      \cup C10_ForcedDivisions(ast.right, TRUE)

\* C10: a division enclosed in parentheses, or descending from a unary,
\* binary, logical or call-argument node, is computed and never rendered as
\* a slash.  An evaluation started with divide false gives what it gives of
\* the expression in which every such division of literals is replaced by
\* its quotient; and a parenthesis, unary, logical or call node gives the
\* same whether it is started with divide false or true.
C10_EnclosedDivisionIsComputed ==
    (last.op = "evaluate" /\ ~last.arg.divide) =>
        /\ last.result
               = Evaluate(last.ns, C10_Forced(last.arg.ast, FALSE), FALSE)
        /\ last.arg.ast.node \in {"Parentheses", "UnaryOp", "NotOp", "AnyOp",
                                  "AllOp", "CallOp"} =>
               last.result = Evaluate(last.ns, last.arg.ast, TRUE)

\* (12px/1.5) was evaluated with divide false and gave the number 8px.
C10_Witness ==
    /\ last.op = "evaluate"
    /\ ~last.arg.divide
    /\ last.arg.ast
           = Parentheses(BinaryOp("truediv",
                                  Literal(NumberValue(12, 1, "px")),
                                  Literal(NumberValue(3, 2, ""))))
    /\ C10_ForcedDivisions(last.arg.ast, FALSE) # {}
    /\ last.result.exc = ""
    /\ last.result.value = NumberValue(8, 1, "px")

----------------------------------------------------------------------------
(* C11 *)

\* The evaluations of the operands of the logical node evaluated last, each
\* on its own.
C11_Each ==
    LET ops == last.arg.ast.operands
    IN  [i \in 1..Len(ops) |-> Evaluate(last.ns, ops[i], TRUE)]

\* The calls made by the first k of those evaluations, in order.
RECURSIVE C11_CallsOf(_, _)
C11_CallsOf(each, k) ==
    IF k = 0 THEN <<>> ELSE C11_CallsOf(each, k - 1) \o each[k].calls

\* C11: AnyOp and AllOp evaluate every operand, left to right, before
\* combining them, though an earlier operand decides the result: the calls
\* made are those of all the operands in order (up to the first operand that
\* raises, whose exception is the node's), and the result of AnyOp, AllOp and
\* NotOp is the Boolean of the disjunction, conjunction or negation of the
\* operands' truth values.
C11_NoShortCircuit ==
    /\ (last.op = "evaluate" /\ last.arg.ast.node \in {"AnyOp", "AllOp"}) =>
           LET each == C11_Each
               raising == {i \in DOMAIN each : each[i].exc # ""}
               truths == {Truth(each[i].value) : i \in DOMAIN each}
           IN  IF raising = {}
               THEN /\ last.result.exc = ""
                    /\ last.result.calls = C11_CallsOf(each, Len(each))
                    /\ last.result.value
                           = BooleanValue(IF last.arg.ast.node = "AnyOp"
                                          THEN TRUE \in truths
                                          ELSE FALSE \notin truths)
               ELSE /\ last.result.exc = each[Least(raising)].exc
                    /\ last.result.calls
                           = C11_CallsOf(each, Least(raising))
    /\ (last.op = "evaluate" /\ last.arg.ast.node = "NotOp") =>
           LET operand == Evaluate(last.ns, last.arg.ast.operand, TRUE)
           IN  operand.exc = "" =>
                   /\ last.result.exc = ""
                   /\ last.result.value = BooleanValue(~Truth(operand.value))

\* `true or f-n()` was evaluated with f-n registered: f-n was called though
\* true had decided the result, and the result is the Boolean true.
C11_Witness ==
    /\ last.op = "evaluate"
    /\ last.arg.ast = AnyOp(<<Literal(BooleanValue(TRUE)),
                              CallOp("f-n", <<>>)>>)
    /\ Len(last.result.calls) = 1
    /\ last.result.value = BooleanValue(TRUE)

\* C12: the expression cache is insert-once.  No step of the calculator
\* removes a text from ast_cache or puts another object in its place, so a
\* text in the cache maps to the object its first successful parse stored;
\* parse_expression returns the object the cache holds, which for a text
\* already in the cache is the object that was there before the call.
C12_InsertOnce ==
    [][/\ \A expr \in DOMAIN ast_cache :
              /\ expr \in DOMAIN ast_cache'
              /\ ast_cache'[expr] = ast_cache[expr]
       /\ (last'.op = "parse_expression" /\ last'.result.exc = "") =>
              /\ last'.name \in DOMAIN ast_cache'
              /\ last'.result.value = ast_cache'[last'.name]
              /\ last'.name \in DOMAIN ast_cache =>
                     last'.result.value = ast_cache[last'.name]]_vars

\* A text was parsed a second time, by parse_expression, and the call
\* returned an AST object.
C12_Witness ==
    /\ last.op = "parse_expression"
    /\ last.arg.cached
    /\ last.result.exc = ""
    /\ last.result.value = ast_cache[last.name]

\* C13: a cached AST does not depend on the namespace.  An
\* evaluate_expression call on a text already in ast_cache leaves the cached
\* object as it was, and what it gives is computed from the value the
\* variable has in the calculator's namespace at the time of that call:
\* `$x + 1` gives the number one above the present $x.
C13_CachedAstReadsNamespace ==
    [][(last'.op = "evaluate_expression" /\ last'.arg.cached) =>
           /\ last'.name \in DOMAIN ast_cache'
           /\ ast_cache'[last'.name] = ast_cache[last'.name]
           /\ \A v \in CalcValues :
                  ( /\ last'.name = "$x + 1"
                    /\ Namespace_variable(dicts, namespaces[last'.ns],
                                          "$x").exc = ""
                    /\ Namespace_variable(dicts, namespaces[last'.ns],
                                          "$x").value = v ) =>
                      /\ last'.result.exc = ""
                      /\ last'.result.value
                             = Some(NumberValue(v.num + 1, 1, ""))]_vars

\* The second of two evaluations of `$x + 1` by the one namespace there is,
\* $x having gone from 2 to 0 in between: 3 before, 1 now.
C13_Witness ==
    /\ Len(namespaces) = 1
    /\ last.op = "evaluate_expression"
    /\ last.name = "$x + 1"
    /\ last.arg.cached
    /\ last.arg.previous = Some(Return(Some(NumberValue(3, 1, ""))))
    /\ last.result = Return(Some(NumberValue(1, 1, "")))

\* A text without #{...} that the parser rejects.
Unparsable(text) == ~Contains(text, "#{") /\ ~Parse(text).ok

\* The raw text with $x replaced by what its value renders as in namespace
\* n, and left as it is where $x is not defined.
Substituted(n, text) ==
    IF text # "$x +" THEN text
    ELSE IF Namespace_variable(dicts, namespaces[n], "$x").exc # ""
    THEN text
    ELSE Render(Namespace_variable(dicts, namespaces[n], "$x").value)
             \o " +"

\* C14: a text that fails to lex or parse.  Without config.DEBUG,
\* evaluate_expression raises nothing, returns None and leaves no cache
\* entry for the text, and calculate returns the raw text with its variables
\* substituted; with config.DEBUG the parse error propagates from both.
C14_ParseFailure ==
    /\ (last.op = "evaluate_expression" /\ ~DEBUG /\ Unparsable(last.name)) =>
           /\ last.result = Return(None)
           /\ last.name \notin DOMAIN ast_cache
    /\ (last.op = "calculate" /\ ~DEBUG /\ Unparsable(last.name)) =>
           /\ last.result.exc = ""
           /\ last.result.value = Some(Str(Substituted(last.ns, last.name)))
    /\ ( /\ last.op \in {"evaluate_expression", "calculate"}
         /\ DEBUG
         /\ Unparsable(last.name) ) =>
           last.result.exc = "SyntaxError"

\* C14 without the case of C16, a raw text that mentions an undefined
\* variable: what is left of the claim holds.
C14_ParseFailureDefined ==
    /\ (last.op = "evaluate_expression" /\ ~DEBUG /\ Unparsable(last.name)) =>
           /\ last.result = Return(None)
           /\ last.name \notin DOMAIN ast_cache
    /\ ( /\ last.op = "calculate"
         /\ ~DEBUG
         /\ Unparsable(last.name)
         /\ \/ last.name # "$x +"
            \/ Namespace_variable(dicts, namespaces[last.ns], "$x").exc = "" ) =>
           /\ last.result.exc = ""
           /\ last.result.value = Some(Str(Substituted(last.ns, last.name)))
    /\ ( /\ last.op \in {"evaluate_expression", "calculate"}
         /\ DEBUG
         /\ Unparsable(last.name) ) =>
           last.result.exc = "SyntaxError"

\* $x is not defined in namespace n.
Undefined(n) == Namespace_variable(dicts, namespaces[n], "$x").exc # ""

\* $x is zero in namespace n.
Zero(n) ==
    /\ ~Undefined(n)
    /\ Namespace_variable(dicts, namespaces[n], "$x").value
           = NumberValue(0, 1, "")

\* C15: an error raised while a parsed AST is evaluated is not caught by the
\* Calculator.  Whether config.DEBUG is set or not, and whether the text was
\* cached or is parsed by this call, evaluate_expression and calculate raise
\* the KeyError of an undefined $x in `$x + 1` and in `$x`, and the
\* ZeroDivisionError of `2 / $x` where $x is 0.
C15_EvaluationErrorsPropagate ==
    (last.op \in {"evaluate_expression", "calculate"}) =>
        /\ (last.name \in {"$x + 1", "$x", "2 / $x"} /\ Undefined(last.ns)) =>
               /\ last.result.exc = "KeyError"
               /\ last.result.key = "$x"
        /\ (last.name = "2 / $x" /\ Zero(last.ns)) =>
               last.result.exc = "ZeroDivisionError"

\* Without config.DEBUG, a division by zero out of a calculate call on a
\* text that was cached before the call.
C15_Witness ==
    /\ ~DEBUG
    /\ last.op = "calculate"
    /\ last.name = "2 / $x"
    /\ last.arg.cached
    /\ Zero(last.ns)
    /\ last.result.exc = "ZeroDivisionError"

\* Without config.DEBUG, the KeyError of an undefined variable out of an
\* evaluate_expression call that parses the text.
C15_WitnessFresh ==
    /\ ~DEBUG
    /\ last.op = "evaluate_expression"
    /\ last.name = "$x + 1"
    /\ ~last.arg.cached
    /\ last.result.exc = "KeyError"

\* C16: the fallback of calculate does not fail.  Without config.DEBUG a
\* calculate call on a text that does not parse returns a str and raises
\* nothing, whether or not the variables the text mentions are defined.
C16_FallbackNeverRaises ==
    (last.op = "calculate" /\ ~DEBUG /\ Unparsable(last.name)) =>
        /\ last.result.exc = ""
        /\ last.result.value # None
        /\ last.result.value[1].t = "str"

\* The text that #{...} interpolation makes of a text in namespace n where
\* $x is defined: each span replaced by what its expression renders as,
\* without its quotes, or by its own text where it does not parse.
Interpolated(n, text) ==
    CASE text = "#{\"1 + 2\"}" -> "1 + 2"
      [] text = "a #{$x} b" ->
             "a " \o Render(Namespace_variable(dicts, namespaces[n],
                                               "$x").value) \o " b"
      [] text = "w #{1 +}" -> "w 1 +"
      [] OTHER -> text

\* What a value that calculate returned reads as: a str as it is, a Value
\* as it renders.
Reads(object) ==
    IF object.t = "str" THEN object.value ELSE Render(object)

\* C17: the text that a #{...} span was replaced by is finished text and
\* is not parsed or evaluated again.  What a calculate call on a text with
\* a span returns reads as the interpolated text: `#{"1 + 2"}` gives
\* `1 + 2`, not 3.
C17_InterpolationIsOpaque ==
    ( /\ last.op = "calculate"
      /\ Contains(last.name, "#{")
      /\ last.result.exc = "" ) =>
        Reads(last.result.value[1]) = Interpolated(last.ns, last.name)

\* The AST of an operand text.
OperandAst(text) ==
    CASE text = "2" -> Literal(NumberValue(2, 1, ""))
      [] text = "$x" -> Variable("$x")
      [] text = "k" -> Literal(String("k", ""))

\* The AST that the last parse_expression call returned.
ParsedAst == last.result.value.ast

\* C18: with the patterns tried in their order and the first allowed match
\* taken, `1-2` parses as the subtraction BinaryOp(sub, 1, 2), and `-moz`
\* parses as one bareword, not as a minus applied to moz.
C18_MinusBetweenDigitsSubtracts ==
    (last.op = "parse_expression" /\ last.result.exc = "") =>
        /\ last.name = "1-2" =>
               ParsedAst = BinaryOp("sub", Literal(NumberValue(1, 1, "")),
                                    Literal(NumberValue(2, 1, "")))
        /\ last.name = "-moz" => ParsedAst = Literal(String("-moz", ""))

\* What holds of the code: `-moz` is one bareword, and a minus is a
\* subtraction where a blank follows it; `1-2` is the list of 1 and -2.
C18_MinusBeforeBlankSubtracts ==
    (last.op = "parse_expression" /\ last.result.exc = "") =>
        /\ last.name \in {"1 - 2", "1- 2"} =>
               ParsedAst = BinaryOp("sub", Literal(NumberValue(1, 1, "")),
                                    Literal(NumberValue(2, 1, "")))
        /\ last.name \in {"1-2", "1 -2"} =>
               ParsedAst = ListLiteral(
                               <<Literal(NumberValue(1, 1, "")),
                                 UnaryOp("neg",
                                         Literal(NumberValue(2, 1, "")))>>,
                               FALSE)
        /\ last.name = "-moz" => ParsedAst = Literal(String("-moz", ""))

\* C19: the operators bind, from loosest to tightest, as or, and, not,
\* comparison, additive, multiplicative, unary, atom, and operators of one
\* level nest to the left.  For all operands a, b, c: `a or b and c` is
\* AnyOp(a, AllOp(b, c)); `not a == b` is NotOp(eq(a, b));
\* `a == b + c * 2` is eq(a, add(b, mul(c, 2))); `a < b < c` is
\* lt(lt(a, b), c); `a - b - c` is sub(sub(a, b), c).
C19_Precedence ==
    (last.op = "parse_expression") =>
        \A a, b, c \in OperandTexts :
            /\ last.name = a \o " or " \o b \o " and " \o c =>
                   /\ last.result.exc = ""
                   /\ ParsedAst
                          = AnyOp(<<OperandAst(a),
                                    AllOp(<<OperandAst(b), OperandAst(c)>>)>>)
            /\ last.name = "not " \o a \o " == " \o b =>
                   /\ last.result.exc = ""
                   /\ ParsedAst
                          = NotOp(BinaryOp("eq", OperandAst(a), OperandAst(b)))
            /\ last.name = a \o " == " \o b \o " + " \o c \o " * 2" =>
                   /\ last.result.exc = ""
                   /\ ParsedAst
                          = BinaryOp("eq", OperandAst(a),
                                BinaryOp("add", OperandAst(b),
                                    BinaryOp("mul", OperandAst(c),
                                             OperandAst("2"))))
            /\ last.name = a \o " < " \o b \o " < " \o c =>
                   /\ last.result.exc = ""
                   /\ ParsedAst
                          = BinaryOp("lt",
                                BinaryOp("lt", OperandAst(a), OperandAst(b)),
                                OperandAst(c))
            /\ last.name = a \o " - " \o b \o " - " \o c =>
                   /\ last.result.exc = ""
                   /\ ParsedAst
                          = BinaryOp("sub",
                                BinaryOp("sub", OperandAst(a), OperandAst(b)),
                                OperandAst(c))

\* A comparison of an operand with a sum of an operand and a product,
\* parsed.
C19_Witness ==
    /\ last.op = "parse_expression"
    /\ last.name = "2 == $x + k * 2"
    /\ last.result.exc = ""
    /\ ParsedAst.node = "BinaryOp"
    /\ ParsedAst.op = "eq"
    /\ ParsedAst.right.op = "add"
    /\ ParsedAst.right.right.op = "mul"

\* What a bareword is, by the words of the claim: a color for a name of
\* COLOR_NAMES, Null for null and undefined, a Boolean for true and false,
\* and the unquoted String of the word for any other word.
BarewordValue(word) ==
    CASE word \in {"red", "blue"} -> ColorValue(word)
      [] word \in {"null", "undefined"} -> Null
      [] word = "true" -> BooleanValue(TRUE)
      [] word = "false" -> BooleanValue(FALSE)
      [] OTHER -> String(word, "")

\* C20: parse_bareword is total and case-sensitive.  Every bareword parses
\* to the Literal of a value: a Color for a color name, Null for exactly
\* null or undefined, Boolean true / false for exactly true / false, and
\* for every other word, True and NULL among them, the unquoted String
\* that carries the word unchanged.
C20_BarewordsCaseSensitive ==
    (last.op = "parse_expression" /\ last.name \in BarewordTexts) =>
        /\ last.result.exc = ""
        /\ ParsedAst = Literal(BarewordValue(last.name))

\* The word True parsed: a String, not a Boolean.
C20_Witness ==
    /\ last.op = "parse_expression"
    /\ last.name = "True"
    /\ last.result.exc = ""
    /\ ParsedAst = Literal(String("True", ""))

\* C21: expressions side by side with no comma make a ListLiteral with
\* comma=False, items with commas between them a ListLiteral with
\* comma=True, the space list is the item of the comma list (`k 2, $x k` is
\* a comma list of two space lists), and a list of one item is that item,
\* with no ListLiteral node around it.
C21_ListParsing ==
    (last.op = "parse_expression" /\ last.name \in ListTexts) =>
        /\ last.result.exc = ""
        /\ last.name \in OperandTexts => ParsedAst = OperandAst(last.name)
        /\ last.name = "k 2" =>
               ParsedAst = ListLiteral(<<OperandAst("k"), OperandAst("2")>>,
                                       FALSE)
        /\ last.name = "k 2 $x" =>
               ParsedAst = ListLiteral(<<OperandAst("k"), OperandAst("2"),
                                         OperandAst("$x")>>, FALSE)
        /\ last.name = "k, 2" =>
               ParsedAst = ListLiteral(<<OperandAst("k"), OperandAst("2")>>,
                                       TRUE)
        /\ last.name = "k, 2, $x" =>
               ParsedAst = ListLiteral(<<OperandAst("k"), OperandAst("2"),
                                         OperandAst("$x")>>, TRUE)
        /\ last.name = "k 2, $x k" =>
               ParsedAst
                   = ListLiteral(
                         <<ListLiteral(<<OperandAst("k"), OperandAst("2")>>,
                                       FALSE),
                           ListLiteral(<<OperandAst("$x"), OperandAst("k")>>,
                                       FALSE)>>,
                         TRUE)
        /\ last.name = "k, 2 $x" =>
               ParsedAst
                   = ListLiteral(
                         <<OperandAst("k"),
                           ListLiteral(<<OperandAst("2"), OperandAst("$x")>>,
                                       FALSE)>>,
                         TRUE)
        /\ last.name = "k 2, $x" =>
               ParsedAst
                   = ListLiteral(
                         <<ListLiteral(<<OperandAst("k"), OperandAst("2")>>,
                                       FALSE),
                           OperandAst("$x")>>,
                         TRUE)
        /\ last.name = "1 + 2 k" =>
               ParsedAst
                   = ListLiteral(
                         <<BinaryOp("add", Literal(NumberValue(1, 1, "")),
                                    OperandAst("2")),
                           OperandAst("k")>>,
                         FALSE)
        /\ last.name = "(k)" => ParsedAst = Parentheses(OperandAst("k"))
        /\ last.name = "(k 2)" =>
               ParsedAst
                   = Parentheses(ListLiteral(<<OperandAst("k"),
                                               OperandAst("2")>>, FALSE))
        /\ last.name = "(k, 2)" =>
               ParsedAst
                   = Parentheses(ListLiteral(<<OperandAst("k"),
                                               OperandAst("2")>>, TRUE))

\* A comma list of two space lists, parsed.
C21_Witness ==
    /\ last.op = "parse_expression"
    /\ last.name = "k 2, $x k"
    /\ last.result.exc = ""
    /\ ParsedAst.node = "ListLiteral"
    /\ ParsedAst.comma
    /\ ParsedAst.items[1].node = "ListLiteral"
    /\ ~ParsedAst.items[1].comma

\* The AST of the call of f with the argument pairs.
CallOfF(argpairs) == CallOp("f", argpairs)
One == Literal(NumberValue(1, 1, ""))

\* C22: an argument that starts with a variable token is named exactly
\* when a `:` token comes right after that token.  Otherwise the parser
\* goes back one token, to where it was before the variable was scanned,
\* and the whole argument, the variable and what continues it, is parsed
\* as a value with the name None.
C22_NamedArgumentLookahead ==
    (last.op = "parse_expression" /\ last.name \in ArgTexts) =>
        /\ last.result.exc = ""
        /\ last.name = "f($x: 1)" =>
               ParsedAst = CallOfF(<< <<Some("$x"), One>> >>)
        /\ last.name = "f($x :1)" =>
               ParsedAst = CallOfF(<< <<Some("$x"), One>> >>)
        /\ last.name = "f($x: $x)" =>
               ParsedAst = CallOfF(<< <<Some("$x"), Variable("$x")>> >>)
        /\ last.name = "f($x: 1 2)" =>
               ParsedAst
                   = CallOfF(<< <<Some("$x"),
                                  ListLiteral(<<One, OperandAst("2")>>,
                                              FALSE)>> >>)
        /\ last.name = "f(2, $x: 1)" =>
               ParsedAst = CallOfF(<< <<None, OperandAst("2")>>,
                                      <<Some("$x"), One>> >>)
        /\ last.name = "f($x, $k-1: 2)" =>
               ParsedAst = CallOfF(<< <<None, Variable("$x")>>,
                                      <<Some("$k-1"), OperandAst("2")>> >>)
        /\ last.name = "f($x)" =>
               ParsedAst = CallOfF(<< <<None, Variable("$x")>> >>)
        /\ last.name = "f($x + 1)" =>
               ParsedAst
                   = CallOfF(<< <<None,
                                  BinaryOp("add", Variable("$x"), One)>> >>)
        /\ last.name = "f($x == 2)" =>
               ParsedAst
                   = CallOfF(<< <<None,
                                  BinaryOp("eq", Variable("$x"),
                                           OperandAst("2"))>> >>)
        /\ last.name = "f($x 2)" =>
               ParsedAst
                   = CallOfF(<< <<None,
                                  ListLiteral(<<Variable("$x"),
                                                OperandAst("2")>>,
                                              FALSE)>> >>)
        /\ last.name = "f($x, 2)" =>
               ParsedAst = CallOfF(<< <<None, Variable("$x")>>,
                                      <<None, OperandAst("2")>> >>)

\* A variable followed by an operator: the argument is the sum, unnamed.
C22_Witness ==
    /\ last.op = "parse_expression"
    /\ last.name = "f($x + 1)"
    /\ last.result.exc = ""
    /\ ParsedAst.node = "CallOp"
    /\ ParsedAst.argspec[1][1] = None
    /\ ParsedAst.argspec[1][2].node = "BinaryOp"
    /\ ParsedAst.argspec[1][2].left = Variable("$x")

\* The node evaluated last is a call.
C23_Case ==
    /\ last.op = "evaluate"
    /\ last.arg.ast.node = "CallOp"

\* The call's argument expressions evaluated one after the other, in
\* argument order, with divide true.
C23_Args ==
    EvaluateEach(last.ns,
                 [i \in 1..Len(last.arg.ast.argspec) |->
                      last.arg.ast.argspec[i][2]],
                 TRUE)

\* The values of the arguments written without a name, in their order.
C23_Unnamed ==
    LET argspec == last.arg.ast.argspec
        values == C23_Args.values
        Own(i) == IF argspec[i][1] = None THEN <<values[i]>> ELSE <<>>
    IN  CASE Len(argspec) = 0 -> <<>>
          [] Len(argspec) = 1 -> Own(1)
          [] Len(argspec) = 2 -> Own(1) \o Own(2)

\* The arguments written with a name.
C23_Named ==
    {i \in 1..Len(last.arg.ast.argspec) : last.arg.ast.argspec[i][1] # None}

\* The function the call resolves to is registered.
C23_Resolved ==
    Namespace_function(dicts, namespaces[last.ns], last.arg.ast.func_name,
                       Some(Len(last.arg.ast.argspec))).exc = ""

\* C23: a call evaluates every argument expression, in argument order and
\* with divide true, before it resolves the function: an argument's error
\* is the call's error whether the function is registered or not, and the
\* calls the arguments make come first.  The function then gets the values
\* of the unnamed arguments in their order as positional arguments, and the
\* value of each named argument under the keyword that is its name without
\* the `$` and with `_` for each `-`: $k-1 is passed as k_1.
C23_EagerArgumentsThenCall ==
    C23_Case =>
        /\ C23_Args.exc # "" =>
               /\ last.result.exc = C23_Args.exc
               /\ last.result.calls = C23_Args.calls
        /\ (C23_Args.exc = "" /\ C23_Resolved) =>
               /\ last.result.exc = ""
               /\ Len(last.result.calls) = Len(C23_Args.calls) + 1
               /\ SubSeq(last.result.calls, 1, Len(C23_Args.calls))
                      = C23_Args.calls
               /\ last.result.calls[Len(last.result.calls)].args
                      = C23_Unnamed
               /\ DOMAIN last.result.calls[Len(last.result.calls)].kwargs
                      = {"k_1" : i \in C23_Named}
               /\ \A i \in C23_Named :
                      last.arg.ast.argspec[i][1] = Some("$k-1")
                      /\ last.result.calls[Len(last.result.calls)].kwargs["k_1"]
                             = C23_Args.values[i]

\* f-n(12px, $k-1: 12px/1.5) called a registered function with 12px and
\* k_1 = 8px.
C23_Witness ==
    /\ C23_Case
    /\ C23_Resolved
    /\ last.arg.ast
           = CallOp("f-n",
                    << <<None, Literal(NumberValue(12, 1, "px"))>>,
                       <<Some("$k-1"),
                         BinaryOp("truediv", Literal(NumberValue(12, 1, "px")),
                                  Literal(NumberValue(3, 2, "")))>> >>)
    /\ last.result.exc = ""
    /\ Len(last.result.calls) = 1
    /\ last.result.calls[1].args = <<NumberValue(12, 1, "px")>>
    /\ last.result.calls[1].kwargs["k_1"] = NumberValue(8, 1, "px")

\* What the namespace of the last evaluation has for the called name at the
\* arity a.
C27_Function(a) ==
    Namespace_function(dicts, namespaces[last.ns], last.arg.ast.func_name,
                       Some(a))

\* C27: the arity a call resolves its function with is the number of
\* arguments written at the call, the named ones counted: a call with p
\* unnamed and k named arguments calls what the namespace has for
\* (name, p + k), exact before wildcard, and calls nothing when the
\* namespace has neither, whatever it has for (name, p).
C27_ArityCountsNamedArguments ==
    (C23_Case /\ C23_Args.exc = "") =>
        /\ C27_Function(Len(last.arg.ast.argspec)).exc = "" =>
               /\ Len(last.result.calls) = Len(C23_Args.calls) + 1
               /\ last.result.calls[Len(last.result.calls)].func
                      = C27_Function(Len(last.arg.ast.argspec)).value
        /\ C27_Function(Len(last.arg.ast.argspec)).exc # "" =>
               last.result.calls = C23_Args.calls

\* A call with one unnamed and one named argument, where the namespace has
\* one function for f-n at arity 1 and another at arity 2: the one at
\* arity 2 was called.
C27_Witness ==
    /\ C23_Case
    /\ Len(last.arg.ast.argspec) = 2
    /\ last.arg.ast.argspec[1][1] = None
    /\ last.arg.ast.argspec[2][1] # None
    /\ C23_Args.exc = ""
    /\ C27_Function(1).exc = ""
    /\ C27_Function(2).exc = ""
    /\ C27_Function(1).value # C27_Function(2).value
    /\ last.result.exc = ""
    /\ last.result.calls[Len(last.result.calls)].func = C27_Function(2).value

\* ast is a division of two Literal nodes.
C28_LiteralDivision(ast) ==
    /\ ast.node = "BinaryOp"
    /\ ast.op = "truediv"
    /\ ast.left.node = "Literal"
    /\ ast.right.node = "Literal"

\* The slash text of a division of literals, and its quotient.
C28_Slash(ast) ==
    String(Render(ast.left.value) \o " / " \o Render(ast.right.value), "")
C28_Quotient(ast) == ApplyBinary("truediv", ast.left.value, ast.right.value)

\* list is a list whose first item is a division of literals that has a
\* quotient.
C28_ListOfDivision(list) ==
    /\ list.node = "ListLiteral"
    /\ C28_LiteralDivision(list.items[1])
    /\ C28_Quotient(list.items[1]).exc = ""

\* C28: a list hands the divide flag it gets to each of its items as it
\* is.  A division of two literals that is an item of a list evaluated with
\* divide false (a space or comma list at the top of an expression, as the
\* 12px/1.5 of `12px/1.5 serif`) gives the text with the slash, and the
\* same item of a list evaluated with divide true gives the quotient; a
\* list in parentheses, and a list that is the argument of a call, have the
\* division computed under either flag.
C28_ListHandsOnDivide ==
    (last.op = "evaluate" /\ last.result.exc = "") =>
        /\ C28_ListOfDivision(last.arg.ast) =>
               /\ last.result.value.t = "List"
               /\ last.result.value.separator
                      = (IF last.arg.ast.comma THEN "," ELSE "")
               /\ last.result.value.items[1]
                      = (IF last.arg.divide
                         THEN C28_Quotient(last.arg.ast.items[1]).value
                         ELSE C28_Slash(last.arg.ast.items[1]))
        /\ ( /\ last.arg.ast.node = "Parentheses"
             /\ C28_ListOfDivision(last.arg.ast.contents) ) =>
               last.result.value.items[1]
                   = C28_Quotient(last.arg.ast.contents.items[1]).value
        /\ ( /\ last.arg.ast.node = "CallOp"
             /\ Len(last.arg.ast.argspec) = 1
             /\ last.arg.ast.argspec[1][1] = None
             /\ C28_ListOfDivision(last.arg.ast.argspec[1][2])
             /\ C23_Resolved ) =>
               last.result.calls[Len(last.result.calls)].args[1].items[1]
                   = C28_Quotient(last.arg.ast.argspec[1][2].items[1]).value

\* The space list of 12px/1.5 and 12px, evaluated with divide false, gave
\* the list of the text 12px / 1.5 and 12px.
C28_Witness ==
    /\ last.op = "evaluate"
    /\ ~last.arg.divide
    /\ last.arg.ast
           = ListLiteral(
                 <<BinaryOp("truediv", Literal(NumberValue(12, 1, "px")),
                            Literal(NumberValue(3, 2, ""))),
                   Literal(NumberValue(12, 1, "px"))>>,
                 FALSE)
    /\ last.result.exc = ""
    /\ last.result.value
           = ListValue(<<String("12px / 1.5", ""), NumberValue(12, 1, "px")>>,
                       "")

\* The list of 12px/1.5 alone, in parentheses, evaluated with divide false,
\* gave the list of 8px.
C28_WitnessParentheses ==
    /\ last.op = "evaluate"
    /\ ~last.arg.divide
    /\ last.arg.ast.node = "Parentheses"
    /\ C28_ListOfDivision(last.arg.ast.contents)
    /\ last.result.exc = ""
    /\ last.result.value = ListValue(<<NumberValue(8, 1, "px")>>, "")

\* The list of 12px/1.5 alone was the argument of a call of a registered
\* function, which got the list of 8px.
C28_WitnessCall ==
    /\ last.op = "evaluate"
    /\ last.arg.ast.node = "CallOp"
    /\ Len(last.arg.ast.argspec) = 1
    /\ C28_ListOfDivision(last.arg.ast.argspec[1][2])
    /\ C23_Resolved
    /\ last.result.exc = ""
    /\ last.result.calls[1].args[1] = ListValue(<<NumberValue(8, 1, "px")>>, "")

\* C26: a scope reads its own writes.  Right after set_variable(name,
\* value) on a scope, however the scopes were derived and written before,
\* variable(name) on that scope gives value; and right after
\* set_function(name, arity, cb), function(name, arity) on that scope
\* gives cb.
C26_ReadYourWrites ==
    /\ last.op = "set_variable" =>
           /\ Namespace_variable(dicts, namespaces[last.ns], last.name).exc
                  = ""
           /\ Namespace_variable(dicts, namespaces[last.ns], last.name).value
                  = last.arg
    /\ last.op = "set_function" =>
           /\ Namespace_function(dicts, namespaces[last.ns], last.name,
                                 last.arity).exc = ""
           /\ Namespace_function(dicts, namespaces[last.ns], last.name,
                                 last.arity).value = last.arg

\* A function was set at arity 1 on a scope that has another function for
\* the name at any arity, and is what the scope gives at arity 1.
C26_Witness ==
    /\ last.op = "set_function"
    /\ last.arity = Some(1)
    /\ Namespace_function(dicts, namespaces[last.ns], last.name, None).exc
           = ""
    /\ Namespace_function(dicts, namespaces[last.ns], last.name, None).value
           # last.arg
    /\ Namespace_function(dicts, namespaces[last.ns], last.name,
                          last.arity).value = last.arg

\* A variable was set on a scope derived from two scopes, and is what the
\* scope gives.
C26_WitnessMerged ==
    /\ last.op = "set_variable"
    /\ Len(namespaces[last.ns].parents) = 2
    /\ Namespace_variable(dicts, namespaces[last.ns], last.name).exc = ""
    /\ Namespace_variable(dicts, namespaces[last.ns], last.name).value
           = last.arg

----------------------------------------------------------------------------
(* C25 *)

\* The channels c of a color lie in their ranges.
C25_InRange(c) ==
    /\ \A i \in 1..3 : ~FloatLess(c[i], Whole(0)) /\ ~FloatLess(Whole(255), c[i])
    /\ ~FloatLess(c[4], Whole(0)) /\ ~FloatLess(Whole(1), c[4])

\* The argument is a unitless number or a percentage.
C25_Accepted(n) == n.t = "Number" /\ n.unit \in {"", "%"}

\* What the argument stands for before it is clamped: relto is 255 for a
\* color channel and 1 for alpha.
C25_Scaled(n, relto) ==
    IF n.unit = "%" THEN Float(n.num * relto, n.den * 100)
    ELSE Float(n.num, n.den)

\* The channel is what the argument stands for, brought into [0, relto].
C25_Clamped(channel, n, relto) ==
    /\ FloatLess(C25_Scaled(n, relto), Whole(0)) => channel = Whole(0)
    /\ FloatLess(Whole(relto), C25_Scaled(n, relto)) => channel = Whole(relto)
    /\ (/\ ~FloatLess(C25_Scaled(n, relto), Whole(0))
        /\ ~FloatLess(Whole(relto), C25_Scaled(n, relto)))
           => channel = C25_Scaled(n, relto)

\* The call went through __rgba_op: opacify, transparentize, and the
\* adjust-color family when a red, green, blue or alpha is given.
C25_ThroughRgbaOp ==
    /\ last.op = "builtin"
    /\ \/ last.name \in {"opacify", "transparentize"}
       \/ /\ last.name \in {"adjust-color", "scale-color", "change-color"}
          /\ \E i \in 4..7 : last.arg.args[i] # None

C25_WitnessTypeError ==
    /\ last.op = "builtin"
    /\ last.name = "rgb"
    /\ last.arg.args = <<NumberValue(50, 1, "%"), NumberValue(10, 1, "px"),
                         NumberValue(-5, 1, "")>>
    /\ last.result.exc = "TypeError"

\* opacify of a color of alpha 1/2 by 2 gave a color of alpha 1.
C25_WitnessRgbaOp ==
    /\ C25_ThroughRgbaOp
    /\ last.result.exc = ""
    /\ last.name = "opacify"
    /\ last.arg.args[2] = NumberValue(2, 1, "")
    /\ last.arg.heap[1].value[4] = Float(1, 2)
    /\ last.result.heap[last.result.ref].value[4] = Whole(1)

----------------------------------------------------------------------------
(* C24 *)

\* A color-adjustment builtin was called on the color at place 1 and
\* returned.
C24_Adjusted ==
    /\ last.op = "builtin"
    /\ last.name \in {"opacify", "transparentize", "lighten", "darken",
                      "saturate", "desaturate", "adjust-hue", "invert",
                      "adjust-color", "scale-color", "change-color"}
    /\ last.result.exc = ""

\* C24: every color-adjustment builtin returns a fresh Color, an object
\* other than its argument, and leaves the channels of its argument as they
\* were.
C24_NeverMutatesNeverAliases ==
    C24_Adjusted
        => /\ last.result.ref # last.arg.args[1]
           /\ last.result.heap[last.arg.args[1]]
                  = last.arg.heap[last.arg.args[1]]

\* What the code does keep: the argument is never changed, and the object
\* returned is the argument only when adjust-color, scale-color or
\* change-color is given no saturation, lightness, red, green, blue or alpha.
C24_ArgumentUnchanged ==
    C24_Adjusted
        => /\ last.result.heap[last.arg.args[1]]
                  = last.arg.heap[last.arg.args[1]]
           /\ last.result.ref = last.arg.args[1]
                  <=> /\ last.name \in {"adjust-color", "scale-color",
                                        "change-color"}
                      /\ \A i \in 2..7 : last.arg.args[i] = None

\* adjust-color of a color and nothing else returned the color it was given.
C24_WitnessAliased ==
    /\ C24_Adjusted
    /\ last.name = "adjust-color"
    /\ last.arg.args = <<1, None, None, None, None, None, None>>
    /\ last.result.ref = 1
    /\ last.result.heap = last.arg.heap

\* lighten by 20% of the color 51, 102, 153 returned a second object, the
\* color 102, 153, 204, and left the first as it was.
C24_WitnessFresh ==
    /\ C24_Adjusted
    /\ last.name = "lighten"
    /\ last.arg.args[2] = NumberValue(20, 1, "%")
    /\ last.arg.heap[1].value = <<Whole(51), Whole(102), Whole(153), Whole(1)>>
    /\ last.result.ref = 2
    /\ last.result.heap[1] = last.arg.heap[1]
    /\ last.result.heap[2].value
           = <<Whole(102), Whole(153), Whole(204), Whole(1)>>

----------------------------------------------------------------------------
(* C29 *)

\* range was called with whole numbers: frm, and through when given.
C29_Case ==
    /\ last.op = "builtin"
    /\ last.name = "range"
    /\ last.arg.args[1].t = "Number" /\ last.arg.args[1].den = 1
    /\ last.arg.args[2] # None
           => (last.arg.args[2][1].t = "Number"
               /\ last.arg.args[2][1].den = 1)

\* The first and the last integer the claim has range count between.
C29_From == IF last.arg.args[2] = None THEN 1 ELSE last.arg.args[1].num
C29_Through ==
    IF last.arg.args[2] = None THEN last.arg.args[1].num
    ELSE last.arg.args[2][1].num

\* value is the comma list of the integers from frm through `through`
\* inclusive, descending when frm > through.
C29_Counts(value, frm, through) ==
    /\ value.t = "List"
    /\ value.separator = ","
    /\ Len(value.items) = Abs(through - frm) + 1
    /\ \A k \in 1..Len(value.items) :
           value.items[k]
               = NumberValue(IF frm > through THEN frm - k + 1
                             ELSE frm + k - 1, 1, "")

\* C29: range(frm, through) returns the comma-separated list of the
\* integers from frm through `through` inclusive, descending when
\* frm > through, and range(n) returns the list 1 through n.
C29_RangeCounts ==
    C29_Case
        => /\ last.result.exc = ""
           /\ C29_Counts(last.result.value, C29_From, C29_Through)

\* What the code does: every call of range raises AttributeError, for
\* enumerate_ reads prefix.value of the None that range_ passes.
C29_RangeRaises ==
    (last.op = "builtin" /\ last.name = "range")
        => last.result.exc = "AttributeError"

\* enumerate with an empty prefix and whole numbers does return the list
\* that the claim has range return.
C29_EnumerateCounts ==
    (/\ last.op = "builtin"
     /\ last.name = "enumerate"
     /\ last.arg.args[1].value = ""
     /\ \A i \in 2..3 : last.arg.args[i].t = "Number"
                        /\ last.arg.args[i].den = 1)
        => /\ last.result.exc = ""
           /\ C29_Counts(last.result.value, last.arg.args[2].num,
                         last.arg.args[3].num)

\* range(1, 3) raised AttributeError.
C29_WitnessRaised ==
    /\ C29_Case
    /\ last.arg.args = <<NumberValue(1, 1, ""), Some(NumberValue(3, 1, ""))>>
    /\ last.result.exc = "AttributeError"

\* enumerate("", 3, 1) returned 3, 2, 1.
C29_WitnessEnumerate ==
    /\ last.op = "builtin"
    /\ last.name = "enumerate"
    /\ last.arg.args[1].value = ""
    /\ last.result.exc = ""
    /\ last.result.value
           = ListValue(<<NumberValue(3, 1, ""), NumberValue(2, 1, ""),
                         NumberValue(1, 1, "")>>, ",")

----------------------------------------------------------------------------
(* C30 *)

\* The text declared for the display type d.
C30_Declared(d) ==
    CASE d = "block" -> elements_of_type_block
      [] d = "inline" -> elements_of_type_inline
      [] d = "table" -> elements_of_type_table
      [] d = "list-item" -> elements_of_type_list_item
      [] d = "table-row-group" -> elements_of_type_table_row_group
      [] d = "table-header-group" -> elements_of_type_table_header_group
      [] d = "table-footer-group" -> elements_of_type_table_footer_group
      [] d = "table-row" -> elements_of_type_table_row
      [] d = "table-cell" -> elements_of_type_table_cel
      [] d = "html5-block" -> elements_of_type_html5_block
      [] d = "html5-inline" -> elements_of_type_html5_inline
      [] d = "html5" -> elements_of_type_html5

\* The names that the text holds between its commas, blanks aside.
C30_Names(text) ==
    {replace(SubSeq(text, i, j), " ", "") :
         <<i, j>> \in {p \in (1..Len(text)) \X (1..Len(text)) :
                          /\ p[1] <= p[2]
                          /\ \A q \in p[1]..p[2] : CharAt(text, q) # ","
                          /\ p[1] = 1 \/ CharAt(text, p[1] - 1) = ","
                          /\ p[2] = Len(text) \/ CharAt(text, p[2] + 1) = ","}}

\* value is the comma list of the names in ascending order, each once.
C30_SortedListOf(value, names) ==
    /\ value.t = "List"
    /\ value.separator = ","
    /\ {value.items[k] : k \in 1..Len(value.items)} = names
    /\ \A k \in 1..(Len(value.items) - 1) :
           StrLess(value.items[k], value.items[k + 1])

\* elements-of-type was called with the display type d.
C30_Called(d) ==
    /\ last.op = "builtin"
    /\ last.name = "elements-of-type"
    /\ last.arg.args[1].value = d

\* C30: elements-of-type(d) returns the sorted list of the elements
\* declared for the display type d when d is one of the supported types
\* (table-row giving tr, table-cell giving td and th), and fails for any
\* other d.
C30_ElementsOfDeclaredType ==
    \A d \in Displays :
        C30_Called(d)
            => IF d \in DisplayTypes
               THEN /\ last.result.exc = ""
                    /\ C30_SortedListOf(last.result.value,
                                        C30_Names(C30_Declared(d)))
               ELSE last.result.exc # ""

\* What the code does keep: the same for every display type but table-row
\* and table-cell, which both give the list of table-footer-group.
C30_AllButRowAndCell ==
    \A d \in Displays :
        C30_Called(d)
            => IF d \in {"table-row", "table-cell"}
               THEN last.result = Return(ListValue(<<"tfoot">>, ","))
               ELSE IF d \in DisplayTypes
               THEN /\ last.result.exc = ""
                    /\ C30_SortedListOf(last.result.value,
                                        C30_Names(C30_Declared(d)))
               ELSE last.result.exc # ""

\* elements-of-type(table-cell) returned the list tfoot, not td, th.
C30_WitnessTableCell ==
    /\ C30_Called("table-cell")
    /\ last.result = Return(ListValue(<<"tfoot">>, ","))
    /\ C30_Names(C30_Declared("table-cell")) = {"td", "th"}

\* elements-of-type(html5-block) returned its twelve elements in order.
C30_WitnessSorted ==
    /\ C30_Called("html5-block")
    /\ last.result.exc = ""
    /\ last.result.value.items
           = <<"article", "aside", "details", "figcaption", "figure",
               "footer", "header", "hgroup", "menu", "nav", "section",
               "summary">>

====
